---- MODULE Spec2Model ----
(***************************************************************************)
(* State-machine model of the HTML distillation services:                  *)
(*   app/services/url_extractor.py      (plain-fetch URL extraction)       *)
(*   app/services/selenium_extractor.py (browser-rendered URL extraction)  *)
(*   app/services/markdown_converter.py (sanitizer, locator, renderer)     *)
(* Strings are sequences of one-character strings, so that parsing,        *)
(* joining, pattern scanning and suffix tests are computed, not assumed.   *)
(***************************************************************************)
EXTENDS Integers, Sequences, FiniteSets, TLC

(***************************************************************************)
(* Character strings                                                       *)
(***************************************************************************)
UpperAlpha ==
    <<"A", "B", "C", "D", "E", "F", "G", "H", "I", "J", "K", "L", "M",
      "N", "O", "P", "Q", "R", "S", "T", "U", "V", "W", "X", "Y", "Z">>

LowerAlpha ==
    <<"a", "b", "c", "d", "e", "f", "g", "h", "i", "j", "k", "l", "m",
      "n", "o", "p", "q", "r", "s", "t", "u", "v", "w", "x", "y", "z">>

Digits ==
    {"0", "1", "2", "3", "4", "5", "6", "7", "8", "9"}

Range(f) ==
    {f[i] : i \in DOMAIN f}

IsAlpha(c) ==
    c \in Range(UpperAlpha) \cup Range(LowerAlpha)

\* str.lower() on one character
LowerChar(c) ==
    IF c \in Range(UpperAlpha)
    THEN LowerAlpha[CHOOSE i \in DOMAIN UpperAlpha : UpperAlpha[i] = c]
    ELSE c

\* str.lower()
Lower(s) ==
    [i \in 1..Len(s) |-> LowerChar(s[i])]

\* str.startswith(p)
StartsWith(s, p) ==
    Len(s) >= Len(p) /\ SubSeq(s, 1, Len(p)) = p

\* str.endswith(p)
EndsWith(s, p) ==
    Len(s) >= Len(p) /\ SubSeq(s, Len(s) - Len(p) + 1, Len(s)) = p

\* s[i:] with a 1-based i
From(s, i) ==
    SubSeq(s, i, Len(s))

\* 1-based index of the first character of s that is in cs, 0 when there is none
FindAny(s, cs) ==
    IF \E i \in 1..Len(s) : s[i] \in cs
    THEN CHOOSE i \in 1..Len(s) : s[i] \in cs /\ \A k \in 1..(i - 1) : s[k] \notin cs
    ELSE 0

\* str.rstrip(cs)
RECURSIVE RStrip(_, _)
RStrip(s, cs) ==
    IF Len(s) > 0 /\ s[Len(s)] \in cs
    THEN RStrip(SubSeq(s, 1, Len(s) - 1), cs)
    ELSE s

\* s contains p as a contiguous substring
Contains(s, p) ==
    \E i \in 1..(Len(s) - Len(p) + 1) : SubSeq(s, i, i + Len(p) - 1) = p

\* the elements of a sequence of sequences joined into one
RECURSIVE Flatten(_)
Flatten(ss) ==
    IF ss = <<>> THEN <<>> ELSE Head(ss) \o Flatten(Tail(ss))

(***************************************************************************)
(* urllib.parse as the services use it                                     *)
(***************************************************************************)
\* Body applied to the value of v, with v evaluated once (a local variable of
\* the code: the value is computed where it is assigned, then reused)
Let(v, Body(_)) ==
    CHOOSE r \in {Body(x) : x \in {v}} : TRUE

SchemeChars ==
    Range(UpperAlpha) \cup Range(LowerAlpha) \cup Digits \cup {"+", "-", "."}

S_http ==
    <<"h", "t", "t", "p">>

S_https ==
    <<"h", "t", "t", "p", "s">>

S_ftp ==
    <<"f", "t", "p">>

\* urllib.parse.uses_relative / uses_netloc, restricted to the schemes of the model
UsesRelative ==
    {S_http, S_https, S_ftp, <<>>}

UsesNetloc ==
    {S_http, S_https, S_ftp, <<>>}

\* urlsplit, first step: a leading scheme is cut off and lower-cased
split_scheme(url, default) ==
    LET i == FindAny(url, {":"})
    IN  IF i > 1 /\ IsAlpha(url[1]) /\ \A k \in 1..(i - 1) : url[k] \in SchemeChars
        THEN [scheme |-> Lower(SubSeq(url, 1, i - 1)), rest |-> From(url, i + 1)]
        ELSE [scheme |-> default, rest |-> url]

\* urlsplit, second step: after "//" the netloc runs to the first of / ? #;
\* err is the ValueError raised on an unbalanced square bracket
split_netloc(url) ==
    IF ~StartsWith(url, <<"/", "/">>)
    THEN [netloc |-> <<>>, rest |-> url, err |-> FALSE]
    ELSE
    LET j == FindAny(From(url, 3), {"/", "?", "#"})
        netloc == IF j = 0 THEN From(url, 3) ELSE SubSeq(url, 3, j + 1)
        hasOpen == \E k \in 3..Len(url) : (j = 0 \/ k < j + 2) /\ url[k] = "["
        hasClose == \E k \in 3..Len(url) : (j = 0 \/ k < j + 2) /\ url[k] = "]"
    IN  [netloc |-> netloc,
         rest |-> IF j = 0 THEN <<>> ELSE From(url, j + 2),
         err |-> (hasOpen /\ ~hasClose) \/ (hasClose /\ ~hasOpen)]

\* urlsplit, last step: fragment after the first #, query after the first ?
split_tail(url) ==
    LET h == FindAny(url, {"#"})
        q == FindAny(url, {"?"})
        hasQuery == q # 0 /\ (h = 0 \/ q < h)
        endOfQuery == IF h = 0 THEN Len(url) ELSE h - 1
    IN  [path |-> IF hasQuery THEN SubSeq(url, 1, q - 1) ELSE SubSeq(url, 1, endOfQuery),
         query |-> IF hasQuery THEN SubSeq(url, q + 1, endOfQuery) ELSE <<>>,
         fragment |-> IF h = 0 THEN <<>> ELSE From(url, h + 1)]

\* urlparse(url, scheme=default): scheme, netloc, path, query, fragment, and
\* err when urlsplit raises
urlparse(url, default) ==
    Let(split_scheme(url, default), LAMBDA a :
    Let(split_netloc(a.rest), LAMBDA b :
    Let(split_tail(b.rest), LAMBDA c :
        [scheme |-> a.scheme, netloc |-> b.netloc, path |-> c.path,
         query |-> c.query, fragment |-> c.fragment, err |-> b.err])))

\* urlunparse((scheme, netloc, path, '', query, fragment))
urlunparse(scheme, netloc, path, query, fragment) ==
    LET withNetloc ==
            IF netloc # <<>>
               \/ (scheme # <<>> /\ scheme \in UsesNetloc /\ ~StartsWith(path, <<"/", "/">>))
            THEN <<"/", "/">> \o netloc
                 \o (IF path # <<>> /\ path[1] # "/" THEN <<"/">> ELSE <<>>) \o path
            ELSE path
    IN  (IF scheme # <<>> THEN scheme \o <<":">> ELSE <<>>)
        \o withNetloc
        \o (IF query # <<>> THEN <<"?">> \o query ELSE <<>>)
        \o (IF fragment # <<>> THEN <<"#">> \o fragment ELSE <<>>)

\* the positions of the "/" characters of s, in increasing order
SlashPositions(s) ==
    LET P == {i \in 1..Len(s) : s[i] = "/"}
    IN  [k \in 1..Cardinality(P) |->
            CHOOSE i \in P : Cardinality({j \in P : j < i}) = k - 1]

\* str.split('/')
SplitSlash(s) ==
    Let(SlashPositions(s), LAMBDA pos :
        [k \in 1..(Len(pos) + 1) |->
            SubSeq(s,
                   IF k = 1 THEN 1 ELSE pos[k - 1] + 1,
                   IF k = Len(pos) + 1 THEN Len(s) ELSE pos[k] - 1)])

\* '/'.join(segs)
RECURSIVE JoinSlash(_)
JoinSlash(segs) ==
    IF segs = <<>> THEN <<>>
    ELSE IF Len(segs) = 1 THEN segs[1]
    ELSE segs[1] \o <<"/">> \o JoinSlash(Tail(segs))

\* urljoin's dot-segment loop: ".." pops the last resolved segment, "." is dropped
RECURSIVE ResolveSegments(_, _)
ResolveSegments(segs, acc) ==
    IF segs = <<>> THEN acc
    ELSE IF Head(segs) = <<".", ".">>
    THEN Let(IF acc = <<>> THEN acc ELSE SubSeq(acc, 1, Len(acc) - 1), LAMBDA popped :
             ResolveSegments(Tail(segs), popped))
    ELSE IF Head(segs) = <<".">> THEN ResolveSegments(Tail(segs), acc)
    ELSE ResolveSegments(Tail(segs), Append(acc, Head(segs)))

\* segments[1:-1] = filter(None, segments[1:-1])
FilterMiddle(segs) ==
    IF Len(segs) <= 2 THEN segs
    ELSE <<segs[1]>>
         \o SelectSeq(SubSeq(segs, 2, Len(segs) - 1), LAMBDA x : x # <<>>)
         \o <<segs[Len(segs)]>>

\* base_parts of urljoin: the segments of the base path without its last one
base_parts(bpath) ==
    Let(SplitSlash(bpath), LAMBDA parts :
        IF parts[Len(parts)] # <<>> THEN SubSeq(parts, 1, Len(parts) - 1) ELSE parts)

\* the resolved path of urljoin for a non-empty path of the reference
resolved_path(bpath, path) ==
    Let(IF StartsWith(path, <<"/">>)
        THEN SplitSlash(path)
        ELSE FilterMiddle(base_parts(bpath) \o SplitSlash(path)), LAMBDA segments :
    Let(ResolveSegments(segments, <<>>), LAMBDA resolved :
    Let(JoinSlash(IF segments[Len(segments)] \in {<<".">>, <<".", ".">>}
                  THEN Append(resolved, <<>>)
                  ELSE resolved), LAMBDA joined :
        IF joined = <<>> THEN <<"/">> ELSE joined)))

\* urljoin with both URLs parsed (b the base, u the reference)
urljoin_parsed(url, b, u) ==
    IF b.err \/ u.err THEN [url |-> <<>>, err |-> TRUE]
    ELSE IF u.scheme # b.scheme \/ u.scheme \notin UsesRelative
    THEN [url |-> url, err |-> FALSE]
    ELSE IF u.scheme \in UsesNetloc /\ u.netloc # <<>>
    THEN [url |-> urlunparse(u.scheme, u.netloc, u.path, u.query, u.fragment),
          err |-> FALSE]
    ELSE IF u.path = <<>>
    THEN [url |-> urlunparse(u.scheme, b.netloc, b.path,
                             IF u.query = <<>> THEN b.query ELSE u.query, u.fragment),
          err |-> FALSE]
    ELSE Let(resolved_path(b.path, u.path), LAMBDA path :
             [url |-> urlunparse(u.scheme, b.netloc, path, u.query, u.fragment),
              err |-> FALSE])

\* urljoin(base, url); err marks a ValueError raised while parsing
urljoin(base, url) ==
    IF base = <<>> THEN [url |-> url, err |-> FALSE]
    ELSE IF url = <<>> THEN [url |-> base, err |-> FALSE]
    ELSE Let(urlparse(base, <<>>), LAMBDA b :
         Let(urlparse(url, b.scheme), LAMBDA u :
             urljoin_parsed(url, b, u)))

(***************************************************************************)
(* String constants of the model (inputs and literals of the code)         *)
(***************************************************************************)
\* "https://example.com/page"
BaseUrl ==
    <<"h", "t", "t", "p", "s", ":", "/", "/", "e", "x", "a", "m", "p", "l", "e", ".", "c", "o", "m", "/", "p", "a", "g", "e">>
\* "/x"
H_abs_path ==
    <<"/", "x">>
\* "#top"
H_fragment ==
    <<"#", "t", "o", "p">>
\* "https://sub.example.com/x"
H_sub ==
    <<"h", "t", "t", "p", "s", ":", "/", "/", "s", "u", "b", ".", "e", "x", "a", "m", "p", "l", "e", ".", "c", "o", "m", "/", "x">>
\* "https://other.com/a.pdf"
H_other_pdf ==
    <<"h", "t", "t", "p", "s", ":", "/", "/", "o", "t", "h", "e", "r", ".", "c", "o", "m", "/", "a", ".", "p", "d", "f">>
\* "ftp://example.com/x"
H_ftp ==
    <<"f", "t", "p", ":", "/", "/", "e", "x", "a", "m", "p", "l", "e", ".", "c", "o", "m", "/", "x">>
\* "https://example.com:8080/x"
H_port ==
    <<"h", "t", "t", "p", "s", ":", "/", "/", "e", "x", "a", "m", "p", "l", "e", ".", "c", "o", "m", ":", "8", "0", "8", "0", "/", "x">>
\* "http://[x"
H_bracket ==
    <<"h", "t", "t", "p", ":", "/", "/", "[", "x">>
\* "https://other.com/x"
H_other ==
    <<"h", "t", "t", "p", "s", ":", "/", "/", "o", "t", "h", "e", "r", ".", "c", "o", "m", "/", "x">>
\* "https://EXAMPLE.com/x"
H_upper ==
    <<"h", "t", "t", "p", "s", ":", "/", "/", "E", "X", "A", "M", "P", "L", "E", ".", "c", "o", "m", "/", "x">>
\* "https://notexample.com/x"
H_suffix ==
    <<"h", "t", "t", "p", "s", ":", "/", "/", "n", "o", "t", "e", "x", "a", "m", "p", "l", "e", ".", "c", "o", "m", "/", "x">>
\* "mailto:a@example.com"
H_mailto ==
    <<"m", "a", "i", "l", "t", "o", ":", "a", "@", "e", "x", "a", "m", "p", "l", "e", ".", "c", "o", "m">>
\* "y"
H_relative ==
    <<"y">>
\* "//sub.example.com/lib.js"
H_netpath ==
    <<"/", "/", "s", "u", "b", ".", "e", "x", "a", "m", "p", "l", "e", ".", "c", "o", "m", "/", "l", "i", "b", ".", "j", "s">>
\* "http:x"
H_nohost ==
    <<"h", "t", "t", "p", ":", "x">>
\* "at https://example.com/x, www.other.com."
T_two ==
    <<"a", "t", " ", "h", "t", "t", "p", "s", ":", "/", "/", "e", "x", "a", "m", "p", "l", "e", ".", "c", "o", "m", "/", "x", ",", " ", "w", "w", "w", ".", "o", "t", "h", "e", "r", ".", "c", "o", "m", ".">>
\* "HTTP://sub.example.com/a) http://."
T_edge ==
    <<"H", "T", "T", "P", ":", "/", "/", "s", "u", "b", ".", "e", "x", "a", "m", "p", "l", "e", ".", "c", "o", "m", "/", "a", ")", " ", "h", "t", "t", "p", ":", "/", "/", ".">>
\* "www."
S_www_dot ==
    <<"w", "w", "w", ".">>
\* "http://"
S_http_prefix ==
    <<"h", "t", "t", "p", ":", "/", "/">>
\* "https://"
S_https_prefix ==
    <<"h", "t", "t", "p", "s", ":", "/", "/">>

\* excluded_extensions of SeleniumExtractorService._should_include_url
excluded_extensions ==
    {<<".", "p", "d", "f">>,
     <<".", "d", "o", "c">>,
     <<".", "d", "o", "c", "x">>,
     <<".", "x", "l", "s">>,
     <<".", "x", "l", "s", "x">>,
     <<".", "p", "p", "t">>,
     <<".", "p", "p", "t", "x">>,
     <<".", "z", "i", "p">>,
     <<".", "r", "a", "r">>,
     <<".", "7", "z">>,
     <<".", "j", "p", "g">>,
     <<".", "j", "p", "e", "g">>,
     <<".", "p", "n", "g">>,
     <<".", "g", "i", "f">>,
     <<".", "c", "s", "s">>,
     <<".", "j", "s">>,
     <<".", "i", "c", "o">>,
     <<".", "x", "m", "l">>,
     <<".", "j", "s", "o", "n">>}

(***************************************************************************)
(* Requests and documents                                                  *)
(***************************************************************************)
\* the largest positive max_links a request of the model carries
MaxLinksCap ==
    2

\* the largest number of a elements with an href in a document of the model
MaxAnchors ==
    2

\* Optional[int]: None is the empty tuple, an integer n is <<n>>
None ==
    <<>>

Some(n) ==
    <<n>>

\* href values of the a elements of a document
HrefChoices ==
    {H_abs_path, H_fragment, H_sub, H_other_pdf, H_ftp, H_bracket}

\* soup.get_text() of a document
TextChoices ==
    {<<>>, T_two, T_edge}

\* UrlExtractRequest: url, include_external, include_internal, max_links
\* (max_links is an unvalidated Optional[int])
Requests ==
    [url : {BaseUrl},
     include_external : BOOLEAN,
     include_internal : BOOLEAN,
     max_links : {None} \cup {Some(n) : n \in -1..MaxLinksCap}]

\* a parsed page, as far as URL extraction reads it: the href values of its
\* a elements in document order, and its text
Documents ==
    [anchors : UNION {[1..n -> HrefChoices] : n \in 0..MaxAnchors},
     text : TextChoices]

(***************************************************************************)
(* UrlExtractorService (plain fetch)                                       *)
(***************************************************************************)
\* UrlExtractorService._should_include_url
should_include_url_no_scheme_check(parsed_url, base_domain, request) ==
    LET url_domain == parsed_url.netloc
        is_internal == \/ url_domain = base_domain
                       \/ EndsWith(url_domain, <<".">> \o base_domain)
    IN  /\ ~(is_internal /\ ~request.include_internal)
        /\ ~(~is_internal /\ ~request.include_external)

should_include_url(parsed_url, base_domain, request) ==
    IF parsed_url.scheme \notin {S_http, S_https} THEN FALSE
    ELSE
    LET url_domain == parsed_url.netloc
        is_internal == \/ url_domain = base_domain
                       \/ EndsWith(url_domain, <<".">> \o base_domain)
    IN  IF is_internal /\ ~request.include_internal THEN FALSE
        ELSE IF ~is_internal /\ ~request.include_external THEN FALSE
        ELSE TRUE

\* one iteration of the loop of _extract_from_a_tags: the URL appended for one
\* a element, if any; err when urljoin or urlparse raises
a_tag_step(href, base_url, base_domain, request) ==
    IF href = <<>> \/ StartsWith(href, <<"#">>) THEN [urls |-> <<>>, err |-> FALSE]
    ELSE Let(urljoin(base_url, href), LAMBDA joined :
         IF joined.err THEN [urls |-> <<>>, err |-> TRUE]
         ELSE Let(urlparse(joined.url, <<>>), LAMBDA parsed_url :
              IF parsed_url.err THEN [urls |-> <<>>, err |-> TRUE]
              ELSE IF should_include_url(parsed_url, base_domain, request)
              THEN [urls |-> <<joined.url>>, err |-> FALSE]
              ELSE [urls |-> <<>>, err |-> FALSE]))

\* UrlExtractorService._extract_from_a_tags: the accepted absolute URLs in
\* document order; err when an iteration raises (nothing catches it here)
extract_from_a_tags(anchors, base_url, base_domain, request) ==
    Let([k \in DOMAIN anchors |-> a_tag_step(anchors[k], base_url, base_domain, request)],
        LAMBDA steps :
            [urls |-> Flatten([k \in DOMAIN steps |-> steps[k].urls]),
             err |-> \E k \in DOMAIN steps : steps[k].err])

\* the negated character class of both patterns: no white space, angle
\* bracket, double quote, brace, bar, backslash, caret or square bracket (the
\* class also excludes the backquote, which no text of the model contains)
UrlTokenChar(c) ==
    c \notin {" ", "\n", "\t", "<", ">", "\"", "{", "}", "|", "\\", "^", "[", "]"}

\* index of the last character of the maximal run of token characters that
\* starts at i (i - 1 when there is none): the greedy [class]+
RunEnd(s, i) ==
    CHOOSE e \in (i - 1)..Len(s) :
        /\ \A k \in i..e : UrlTokenChar(s[k])
        /\ e = Len(s) \/ ~UrlTokenChar(s[e + 1])

\* a literal prefix p matches at i, ignoring case, and a token character follows
PrefixAt(text, i, p) ==
    /\ i + Len(p) <= Len(text)
    /\ Lower(SubSeq(text, i, i + Len(p) - 1)) = p
    /\ UrlTokenChar(text[i + Len(p)])

\* re.findall(<one of prefixes>[class]+, text, re.IGNORECASE) from index i on:
\* leftmost, greedy, non-overlapping matches
RECURSIVE FindAll(_, _, _)
FindAll(text, i, prefixes) ==
    IF i > Len(text) THEN <<>>
    ELSE IF \E p \in prefixes : PrefixAt(text, i, p)
    THEN Let(RunEnd(text, i + Len(CHOOSE p \in prefixes : PrefixAt(text, i, p))),
             LAMBDA e : <<SubSeq(text, i, e)>> \o FindAll(text, e + 1, prefixes))
    ELSE Let(i + 1, LAMBDA next : FindAll(text, next, prefixes))

\* the two url_patterns, in order
url_patterns ==
    <<{S_http_prefix, S_https_prefix}, {S_www_dot}>>

\* the body of the loop over one pattern's matches: the URL appended for one
\* match, if any
clean_match(match, base_domain, request) ==
    Let(RStrip(match, {".", ",", ";", "!", "?", ")"}), LAMBDA stripped :
    Let(IF StartsWith(stripped, S_www_dot) THEN S_https_prefix \o stripped ELSE stripped,
        LAMBDA clean_url :
    Let(urlparse(clean_url, <<>>), LAMBDA parsed_url :
        IF ~parsed_url.err /\ should_include_url(parsed_url, base_domain, request)
        THEN <<clean_url>>
        ELSE <<>>)))

\* the loop over the matches of one pattern
clean_matches(matches, base_domain, request) ==
    Flatten([k \in DOMAIN matches |-> clean_match(matches[k], base_domain, request)])

\* UrlExtractorService._extract_from_regex
extract_from_regex(page_text, base_url, base_domain, request) ==
    Let([k \in DOMAIN url_patterns |->
            Let(FindAll(page_text, 1, url_patterns[k]), LAMBDA matches :
                clean_matches(matches, base_domain, request))],
        LAMBDA per_pattern : Flatten(per_pattern))

\* the orders in which list(set) can enumerate a set
RECURSIVE Orderings(_)
Orderings(S) ==
    IF S = {} THEN {<<>>}
    ELSE UNION {{<<x>> \o p : p \in Orderings(S \ {x})} : x \in S}

\* urls_list[:n] of Python, n of either sign
Slice(list, n) ==
    IF n >= 0
    THEN SubSeq(list, 1, IF n < Len(list) THEN n ELSE Len(list))
    ELSE SubSeq(list, 1, IF Len(list) + n > 0 THEN Len(list) + n ELSE 0)

\* the max_links step of _extract_urls: `if request.max_links and len(...) > ...`
apply_max_links(urls_list, max_links) ==
    IF max_links # None /\ max_links[1] # 0 /\ Len(urls_list) > max_links[1]
    THEN Slice(urls_list, max_links[1])
    ELSE urls_list

\* the deduplicated set _extract_urls builds from both strategies
urls_set_of(document, request) ==
    Let(urlparse(request.url, <<>>).netloc, LAMBDA base_domain :
    Let(extract_from_a_tags(document.anchors, request.url, base_domain, request),
        LAMBDA a_tag_urls :
    Let(extract_from_regex(document.text, request.url, base_domain, request),
        LAMBDA regex_urls :
        [urls |-> Range(a_tag_urls.urls) \cup Range(regex_urls), err |-> a_tag_urls.err])))

\* UrlExtractorService._extract_urls: the lists it can return (the order of
\* list(set) is not determined), or err when it raises
extract_urls(document, request) ==
    Let(urls_set_of(document, request), LAMBDA s :
        [lists |-> IF s.err THEN {}
                   ELSE {apply_max_links(urls_list, request.max_links) :
                            urls_list \in Orderings(s.urls)},
         err |-> s.err])

(***************************************************************************)
(* SeleniumExtractorService (browser-rendered)                             *)
(***************************************************************************)
\* SeleniumExtractorService._should_include_url
selenium_should_include_url(parsed_url, base_domain, request) ==
    IF parsed_url.netloc = <<>> THEN FALSE
    ELSE
    LET is_internal == parsed_url.netloc = base_domain
        path == Lower(parsed_url.path)
    IN  IF is_internal /\ ~request.include_internal THEN FALSE
        ELSE IF ~is_internal /\ ~request.include_external THEN FALSE
        ELSE IF \E ext \in excluded_extensions : EndsWith(path, ext) THEN FALSE
        ELSE TRUE

\* one iteration of the loop of _extract_links_from_page over the href values
\* the driver reports: the URL appended for one link, if any; an exception on
\* one link skips that link
link_step(href, base_url, base_domain, request) ==
    IF href = <<>> THEN <<>>
    ELSE Let(IF StartsWith(href, <<"/">>)
             THEN urljoin(base_url, href)
             ELSE [url |-> href, err |-> FALSE], LAMBDA joined :
         IF joined.err THEN <<>>
         ELSE Let(urlparse(joined.url, <<>>), LAMBDA parsed_url :
              IF parsed_url.err THEN <<>>
              ELSE IF selenium_should_include_url(parsed_url, base_domain, request)
              THEN <<joined.url>>
              ELSE <<>>))

\* SeleniumExtractorService._extract_links_from_page: the lists list(set(urls))
\* can be; request.max_links is not read
extract_links_from_page(hrefs, base_url, base_domain, request) ==
    Let(Flatten([k \in DOMAIN hrefs |-> link_step(hrefs[k], base_url, base_domain, request)]),
        LAMBDA urls : Orderings(Range(urls)))

(***************************************************************************)
(* State                                                                   *)
(***************************************************************************)
VARIABLES
    request,    \* the UrlExtractRequest of the call
    document,   \* the page the collaborator delivers, as URL extraction reads it
    response,   \* the UrlExtractResponse of the call
    candidate,  \* a URL handed to the two _should_include_url predicates
    verdict,    \* what the two predicates answered for candidate
    html,       \* the parse tree of html_content, before any removal
    md_request, \* the arguments of html_to_markdown
    md,         \* the progress and results of the sanitizer / html_to_markdown
    table,      \* a table element handed to _convert_table_to_markdown
    table_md,   \* the lines _convert_table_to_markdown returns
    raw,        \* the string handed to _clean_markdown
    cleaned,    \* what _clean_markdown returns
    page,       \* the elements extract_metadata looks for in a document
    metadata,   \* the title, description and headings extract_metadata returns
    api_call,   \* a request at an endpoint, with what the extractor call gives
    api_reply,  \* what the endpoints answer to api_call
    driver,     \* self.driver of the SeleniumExtractorService singleton
    drivers,    \* the browser drivers created so far and what happened to each
    calls,      \* the invocations of extract_urls_and_text and their positions
    shared_soup, \* the parse tree extract_urls_and_markdown works on
    run         \* the position and locals of extract_urls_and_markdown

vars ==
    <<request, document, response, candidate, verdict, html, md_request, md,
      table, table_md, raw, cleaned, page, metadata, api_call, api_reply,
      driver, drivers, calls, shared_soup, run>>

url_vars ==
    <<request, document, response>>

classify_vars ==
    <<candidate, verdict>>

md_vars ==
    <<html, md_request, md>>

table_vars ==
    <<table, table_md>>

clean_vars ==
    <<raw, cleaned>>

meta_vars ==
    <<page, metadata>>

api_vars ==
    <<api_call, api_reply>>

driver_vars ==
    <<driver, drivers, calls>>

shared_vars ==
    <<shared_soup, run>>

\* the variables of the endpoints, the driver life cycle and the shared tree
ext_vars ==
    <<api_vars, driver_vars, shared_vars>>

\* the variables of the table conversion, the clean pass and the metadata
aux_vars ==
    <<table_vars, clean_vars, meta_vars>>

\* no response yet
Pending ==
    [state |-> "pending", success |-> FALSE, extracted_urls |-> <<>>,
     total_links_found |-> 0, method |-> "", error_message |-> FALSE]

\* UrlExtractResponse(success=True, ...)
SuccessResponse(urls, method) ==
    [state |-> "returned", success |-> TRUE, extracted_urls |-> urls,
     total_links_found |-> Len(urls), method |-> method, error_message |-> FALSE]

\* UrlExtractResponse(success=False, extracted_urls=[], total_links_found=0, ...)
FailureResponse(method) ==
    [state |-> "returned", success |-> FALSE, extracted_urls |-> <<>>,
     total_links_found |-> 0, method |-> method, error_message |-> TRUE]

NoVerdict ==
    [state |-> "pending", plain |-> FALSE, selenium |-> FALSE]

NoRequest ==
    [url |-> <<>>, include_external |-> FALSE, include_internal |-> FALSE,
     max_links |-> None]

NoDocument ==
    [anchors |-> <<>>, text |-> <<>>]

\* the variables of URL extraction, unused
UrlIdle ==
    request = NoRequest /\ document = NoDocument /\ response = Pending

\* no result yet
NotReturned ==
    [state |-> "pending"]

\* the variables of the table conversion, unused
TableIdle ==
    table = <<>> /\ table_md = NotReturned

\* the variables of the clean pass, unused
CleanIdle ==
    raw = <<>> /\ cleaned = NotReturned

\* the variables of the metadata extraction, unused
MetaIdle ==
    page = <<>> /\ metadata = NotReturned

\* the variables of the endpoints, unused
ApiIdle ==
    api_call = <<>> /\ api_reply = <<>>

\* the variables of the driver life cycle, unused
DriverIdle ==
    driver = <<>> /\ drivers = <<>> /\ calls = <<>>

\* the variables of the shared parse tree, unused
SharedIdle ==
    shared_soup = <<>> /\ run = <<>>

ExtIdle ==
    ApiIdle /\ DriverIdle /\ SharedIdle

AuxIdle ==
    TableIdle /\ CleanIdle /\ MetaIdle

\* the variables of the predicate calls, unused
ClassifyIdle ==
    candidate = <<>> /\ verdict = NoVerdict

(***************************************************************************)
(* URL extraction: one request, one page, one of the two services          *)
(***************************************************************************)
\* a slip: total_links_found counts the URLs found, before the max_links cut
extract_urls_and_markdown_counts_found(document_, request_) ==
    Let(extract_urls(document_, request_), LAMBDA r :
        {FailureResponse("requests")}
            \cup (IF r.err THEN {}
                  ELSE {[SuccessResponse(urls_list, "requests") EXCEPT
                            !.total_links_found =
                                Cardinality(urls_set_of(document_, request_).urls)] :
                           urls_list \in r.lists}))

\* UrlExtractorService.extract_urls_and_markdown: the responses a call can
\* return. The fetch fails, or _extract_urls raises, or the response carries
\* the URL list
extract_urls_and_markdown(document_, request_) ==
    Let(extract_urls(document_, request_), LAMBDA r :
        {FailureResponse("requests")}
            \cup (IF r.err THEN {}
                  ELSE {SuccessResponse(urls_list, "requests") : urls_list \in r.lists}))

\* SeleniumExtractorService.extract_urls_and_text: the responses a call can
\* return. The driver or the page load fails, or the response carries the
\* links of the rendered page
extract_urls_and_text(document_, request_) ==
    Let(urlparse(request_.url, <<>>).netloc, LAMBDA base_domain :
        {FailureResponse("selenium")}
            \cup {SuccessResponse(urls, "selenium") :
                     urls \in extract_links_from_page(document_.anchors, request_.url,
                                                      base_domain, request_)})

ExtractUrlsAndMarkdown ==
    /\ response.state = "pending"
    /\ \E r \in extract_urls_and_markdown(document, request) : response' = r
    /\ UNCHANGED <<ext_vars, request, document, classify_vars, md_vars, aux_vars>>

ExtractUrlsAndText ==
    /\ response.state = "pending"
    /\ \E r \in extract_urls_and_text(document, request) : response' = r
    /\ UNCHANGED <<ext_vars, request, document, classify_vars, md_vars, aux_vars>>

NextUrl ==
    \/ ExtractUrlsAndMarkdown
    \/ ExtractUrlsAndText

(***************************************************************************)
(* The two inclusion predicates on one candidate URL                       *)
(***************************************************************************)
\* "https://example.com:8443/"
BasePortUrl ==
    <<"h", "t", "t", "p", "s", ":", "/", "/", "e", "x", "a", "m", "p", "l", "e", ".", "c", "o", "m", ":", "8", "4", "4", "3", "/">>
\* "https://user@example.com/x"
H_userinfo ==
    <<"h", "t", "t", "p", "s", ":", "/", "/", "u", "s", "e", "r", "@", "e", "x", "a", "m", "p", "l", "e", ".", "c", "o", "m", "/", "x">>

\* candidate URLs (none makes urlparse raise)
Candidates ==
    {H_abs_path, H_sub, H_other_pdf, H_ftp, H_port, H_other, H_upper, H_suffix,
     H_mailto, H_relative, H_netpath, H_nohost, H_userinfo, BaseUrl, BasePortUrl}

ClassifyRequests ==
    [url : {BaseUrl, BasePortUrl},
     include_external : BOOLEAN,
     include_internal : BOOLEAN,
     max_links : {None}]

\* one call of each service's _should_include_url on the parsed candidate
ShouldIncludeUrl ==
    /\ verdict.state = "pending"
    /\ \E parsed_url \in {urlparse(candidate, <<>>)},
          base_domain \in {urlparse(request.url, <<>>).netloc} :
          verdict' = [state |-> "done",
                      plain |-> should_include_url(parsed_url, base_domain, request),
                      selenium |-> selenium_should_include_url(parsed_url, base_domain,
                                                               request)]
    /\ UNCHANGED <<ext_vars, url_vars, candidate, md_vars, aux_vars>>

NextClassify ==
    ShouldIncludeUrl

(***************************************************************************)
(* MarkdownConverterService: the parse tree                                *)
(*                                                                         *)
(* html is the sequence of the nodes of the tree in document order. A node *)
(* is a tag or a comment; parent is the index of its parent, 0 for the     *)
(* BeautifulSoup object itself. text_len is the length of the text the tag *)
(* holds directly, as its first child (0: none). After a removal the       *)
(* tree is html restricted to the set of nodes still attached.             *)
(***************************************************************************)
\* self.remove_tags
remove_tags ==
    <<"script", "style", "nav", "header", "footer", "aside",
      "noscript", "iframe", "embed", "object", "applet", "form",
      "input", "button", "select", "textarea", "meta", "link",
      "title", "head">>

\* self.remove_class_patterns: the pattern .*w.* searched with re.IGNORECASE
\* finds the word w anywhere in the value, whatever its case
remove_class_patterns ==
    <<<<"n", "a", "v">>,
      <<"m", "e", "n", "u">>,
      <<"s", "i", "d", "e", "b", "a", "r">>,
      <<"f", "o", "o", "t", "e", "r">>,
      <<"h", "e", "a", "d", "e", "r">>,
      <<"a", "d">>,
      <<"b", "a", "n", "n", "e", "r">>,
      <<"p", "o", "p", "u", "p">>,
      <<"m", "o", "d", "a", "l">>,
      <<"c", "o", "o", "k", "i", "e">>,
      <<"s", "o", "c", "i", "a", "l">>,
      <<"s", "h", "a", "r", "e">>,
      <<"c", "o", "m", "m", "e", "n", "t">>,
      <<"r", "e", "l", "a", "t", "e", "d">>,
      <<"r", "e", "c", "o", "m", "m", "e", "n", "d">>>>

\* self.remove_id_patterns
remove_id_patterns ==
    <<<<"n", "a", "v">>,
      <<"m", "e", "n", "u">>,
      <<"s", "i", "d", "e", "b", "a", "r">>,
      <<"f", "o", "o", "t", "e", "r">>,
      <<"h", "e", "a", "d", "e", "r">>,
      <<"a", "d">>,
      <<"b", "a", "n", "n", "e", "r">>,
      <<"p", "o", "p", "u", "p">>,
      <<"m", "o", "d", "a", "l">>,
      <<"c", "o", "o", "k", "i", "e">>,
      <<"s", "o", "c", "i", "a", "l">>,
      <<"s", "h", "a", "r", "e">>,
      <<"c", "o", "m", "m", "e", "n", "t">>,
      <<"r", "e", "l", "a", "t", "e", "d">>,
      <<"r", "e", "c", "o", "m", "m", "e", "n", "d">>>>

\* main_selectors of _extract_main_content, in declared order
main_selectors ==
    <<[by |-> "tag", tag |-> "main", value |-> <<>>],
      [by |-> "tag", tag |-> "article", value |-> <<>>],
      [by |-> "class", tag |-> "", value |-> <<"c", "o", "n", "t", "e", "n", "t">>],
      [by |-> "class", tag |-> "", value |-> <<"m", "a", "i", "n", "-", "c", "o", "n", "t", "e", "n", "t">>],
      [by |-> "class", tag |-> "", value |-> <<"p", "o", "s", "t", "-", "c", "o", "n", "t", "e", "n", "t">>],
      [by |-> "class", tag |-> "", value |-> <<"e", "n", "t", "r", "y", "-", "c", "o", "n", "t", "e", "n", "t">>],
      [by |-> "class", tag |-> "", value |-> <<"a", "r", "t", "i", "c", "l", "e", "-", "c", "o", "n", "t", "e", "n", "t">>],
      [by |-> "class", tag |-> "", value |-> <<"p", "a", "g", "e", "-", "c", "o", "n", "t", "e", "n", "t">>],
      [by |-> "id", tag |-> "", value |-> <<"c", "o", "n", "t", "e", "n", "t">>],
      [by |-> "id", tag |-> "", value |-> <<"m", "a", "i", "n">>],
      [by |-> "id", tag |-> "", value |-> <<"a", "r", "t", "i", "c", "l", "e">>],
      [by |-> "id", tag |-> "", value |-> <<"p", "o", "s", "t">>],
      [by |-> "id", tag |-> "", value |-> <<"e", "n", "t", "r", "y">>]>>

A_content ==
    <<"c", "o", "n", "t", "e", "n", "t">>

A_Sidebar ==
    <<"S", "i", "d", "e", "b", "a", "r">>

A_lead ==
    <<"l", "e", "a", "d">>

A_Top_Banner ==
    <<"T", "o", "p", "-", "B", "a", "n", "n", "e", "r">>

A_main ==
    <<"m", "a", "i", "n">>

\* "data:x"
H_data ==
    <<"d", "a", "t", "a", ":", "x">>
\* "mailto:"
S_mailto_prefix ==
    <<"m", "a", "i", "l", "t", "o", ":">>
\* "tel:"
S_tel_prefix ==
    <<"t", "e", "l", ":">>
\* "data:"
S_data_prefix ==
    <<"d", "a", "t", "a", ":">>
\* "site-nav"
A_site_nav ==
    <<"s", "i", "t", "e", "-", "n", "a", "v">>

\* the tag name, class tokens and id of each kind of node of the model
KindAttrs ==
    [body    |-> [tag |-> "body", class |-> <<>>, id |-> <<>>],
     div     |-> [tag |-> "div", class |-> <<>>, id |-> <<>>],
     main    |-> [tag |-> "main", class |-> <<>>, id |-> <<>>],
     nav     |-> [tag |-> "nav", class |-> <<>>, id |-> <<>>],
     content |-> [tag |-> "div", class |-> <<A_content>>, id |-> <<>>],
     sidebar |-> [tag |-> "div", class |-> <<A_Sidebar>>, id |-> <<>>],
     lead    |-> [tag |-> "p", class |-> <<A_lead>>, id |-> <<>>],
     banner  |-> [tag |-> "div", class |-> <<>>, id |-> A_Top_Banner],
     idmain  |-> [tag |-> "div", class |-> <<>>, id |-> A_main],
     comment |-> [tag |-> "", class |-> <<>>, id |-> <<>>],
     article |-> [tag |-> "article", class |-> <<>>, id |-> <<>>],
     sitenav |-> [tag |-> "nav", class |-> <<A_site_nav>>, id |-> <<>>],
     p       |-> [tag |-> "p", class |-> <<>>, id |-> <<>>],
     h1      |-> [tag |-> "h1", class |-> <<>>, id |-> <<>>],
     li      |-> [tag |-> "li", class |-> <<>>, id |-> <<>>],
     a_rel   |-> [tag |-> "a", class |-> <<>>, id |-> <<>>],
     a_abs   |-> [tag |-> "a", class |-> <<>>, id |-> <<>>],
     a_mailto |-> [tag |-> "a", class |-> <<>>, id |-> <<>>],
     a_data  |-> [tag |-> "a", class |-> <<>>, id |-> <<>>],
     a_none  |-> [tag |-> "a", class |-> <<>>, id |-> <<>>],
     img_rel |-> [tag |-> "img", class |-> <<>>, id |-> <<>>],
     img_data |-> [tag |-> "img", class |-> <<>>, id |-> <<>>],
     img_none |-> [tag |-> "img", class |-> <<>>, id |-> <<>>],
     table   |-> [tag |-> "table", class |-> <<>>, id |-> <<>>],
     tr      |-> [tag |-> "tr", class |-> <<>>, id |-> <<>>],
     td      |-> [tag |-> "td", class |-> <<>>, id |-> <<>>]]

\* the href of the a elements and the src of the img elements of the model
\* (empty: the attribute is absent)
KindUrls ==
    [a_rel |-> H_abs_path, a_abs |-> H_other, a_mailto |-> H_mailto, a_data |-> H_data,
     a_none |-> <<>>, img_rel |-> H_relative, img_data |-> H_data, img_none |-> <<>>]

\* len(main_element.get_text()) > 100
MinContentLen ==
    100

\* the length of a short text of the model
ShortLen ==
    60

\* the text lengths of the model: none, short, just over the threshold
TextLens ==
    {0, ShortLen, MinContentLen + 1}

\* the largest number of nodes of a tree handed to the sanitizer alone
MaxSanNodes ==
    3

\* the largest number of nodes of a tree handed to html_to_markdown
MaxMdNodes ==
    2

\* how often the sanitizer is run on one tree
MaxPasses ==
    2

IsComment(t, n) ==
    t[n].kind = "comment"

IsTag(t, n) ==
    t[n].kind # "comment"

TagName(t, n) ==
    KindAttrs[t[n].kind].tag

ClassOf(t, n) ==
    KindAttrs[t[n].kind].class

IdOf(t, n) ==
    KindAttrs[t[n].kind].id

\* tag.get('href', '') of an a element, tag.get('src', '') of an img element
UrlOf(t, n) ==
    IF t[n].kind \in DOMAIN KindUrls THEN KindUrls[t[n].kind] ELSE <<>>

\* a node that holds neither text nor children: a comment, an img element
IsVoid(kind) ==
    kind = "comment" \/ KindAttrs[kind].tag = "img"

\* n and its ancestors
RECURSIVE AncestorsOrSelf(_, _)
AncestorsOrSelf(t, n) ==
    IF n = 0 THEN {} ELSE {n} \cup AncestorsOrSelf(t, t[n].parent)

\* n and its descendants
Subtree(t, n) ==
    {k \in DOMAIN t : n \in AncestorsOrSelf(t, k)}

\* the trees of at most max nodes over the given kinds: nodes in document
\* order, a comment has no children and no text
Trees(kinds, lens, max) ==
    UNION {{t \in [1..n -> [kind : kinds, parent : 0..(max - 1), text_len : lens]] :
              \A k \in 1..n :
                 /\ t[k].parent < k
                 /\ k > 1 => t[k].parent \in {0} \cup AncestorsOrSelf(t, k - 1)
                 /\ t[k].parent # 0 => ~IsVoid(t[t[k].parent].kind)
                 /\ IsVoid(t[k].kind) => t[k].text_len = 0}
           : n \in 0..max}

\* soup.find_all(tag_name), as the set of the attached tags found
find_all_tag(t, present, tag_name) ==
    {n \in present : IsTag(t, n) /\ TagName(t, n) = tag_name}

\* re.compile(pattern, re.IGNORECASE).search(value) for a pattern .*word.*
pattern_search(word, value) ==
    Contains(Lower(value), word)

\* soup.find_all(class_=re.compile(pattern, re.IGNORECASE)): a tag matches when
\* one of its class tokens does
find_all_class_pattern(t, present, word) ==
    {n \in present : IsTag(t, n)
                     /\ \E k \in DOMAIN ClassOf(t, n) : pattern_search(word, ClassOf(t, n)[k])}

\* soup.find_all(id=re.compile(pattern, re.IGNORECASE))
find_all_id_pattern(t, present, word) ==
    {n \in present : IsTag(t, n) /\ IdOf(t, n) # <<>> /\ pattern_search(word, IdOf(t, n))}

\* `for element in elements: element.decompose()`
decompose_all(t, present, elements) ==
    present \ UNION {Subtree(t, n) : n \in elements}

\* MarkdownConverterService._remove_unwanted_tags, from the k-th tag name on
RECURSIVE remove_unwanted_tags_from(_, _, _)
remove_unwanted_tags_from(t, present, k) ==
    IF k > Len(remove_tags) THEN present
    ELSE Let(decompose_all(t, present, find_all_tag(t, present, remove_tags[k])),
             LAMBDA left : remove_unwanted_tags_from(t, left, k + 1))

\* a slip: only the first match of each tag name is decomposed (find for find_all)
remove_unwanted_tags_first_only(t, present) ==
    present \ UNION {Subtree(t, n) :
                        n \in {m \in present :
                                 /\ IsTag(t, m)
                                 /\ \E k \in DOMAIN remove_tags : TagName(t, m) = remove_tags[k]
                                 /\ \A j \in present :
                                       (j < m /\ IsTag(t, j)) => TagName(t, j) # TagName(t, m)}}

\* MarkdownConverterService._remove_unwanted_tags
remove_unwanted_tags(t, present) ==
    remove_unwanted_tags_from(t, present, 1)

\* the loop of _remove_unwanted_elements over the class patterns, from the k-th on
RECURSIVE remove_by_class_from(_, _, _)
remove_by_class_from(t, present, k) ==
    IF k > Len(remove_class_patterns) THEN present
    ELSE Let(decompose_all(t, present,
                           find_all_class_pattern(t, present, remove_class_patterns[k])),
             LAMBDA left : remove_by_class_from(t, left, k + 1))

\* the loop of _remove_unwanted_elements over the id patterns, from the k-th on
RECURSIVE remove_by_id_from(_, _, _)
remove_by_id_from(t, present, k) ==
    IF k > Len(remove_id_patterns) THEN present
    ELSE Let(decompose_all(t, present,
                           find_all_id_pattern(t, present, remove_id_patterns[k])),
             LAMBDA left : remove_by_id_from(t, left, k + 1))

\* a slip: the id patterns are never applied
remove_unwanted_elements_class_only(t, present) ==
    remove_by_class_from(t, present, 1)

\* MarkdownConverterService._remove_unwanted_elements (it removes no comment)
remove_unwanted_elements(t, present) ==
    Let(remove_by_class_from(t, present, 1),
        LAMBDA left : remove_by_id_from(t, left, 1))

\* a slip: nothing is removed
sanitize_nothing(t, present) ==
    present

\* the Sanitizer: _remove_unwanted_tags, then _remove_unwanted_elements
sanitize(t, present) ==
    Let(remove_unwanted_tags(t, present),
        LAMBDA left : remove_unwanted_elements(t, left))

\* the sum of the text lengths of the first k nodes that are in S
RECURSIVE SumTextLen(_, _, _)
SumTextLen(t, S, k) ==
    IF k = 0 THEN 0
    ELSE (IF k \in S THEN t[k].text_len ELSE 0) + SumTextLen(t, S, k - 1)

\* len(x.get_text()): the text of the attached tags at and below n (a
\* comment is no part of get_text)
get_text_len(t, present, n) ==
    SumTextLen(t, Subtree(t, n) \cap present, Len(t))

\* soup.find_all(...) for one entry of main_selectors: by tag name, by class
\* token, or by id
select(t, present, selector) ==
    {n \in present :
        /\ IsTag(t, n)
        /\ CASE selector.by = "tag" -> TagName(t, n) = selector.tag
             [] selector.by = "class" ->
                    \E k \in DOMAIN ClassOf(t, n) : ClassOf(t, n)[k] = selector.value
             [] OTHER -> IdOf(t, n) = selector.value}

\* a slip: elements[0] instead of the element with the most text
first_element(t, present, elements) ==
    CHOOSE n \in elements : \A k \in elements : n <= k

\* max(elements, key=lambda x: len(x.get_text())): the first of the elements
\* with the greatest text length
max_by_text(t, present, elements) ==
    CHOOSE n \in elements :
        \A k \in elements :
            \/ get_text_len(t, present, k) < get_text_len(t, present, n)
            \/ (get_text_len(t, present, k) = get_text_len(t, present, n) /\ n <= k)

\* the body of the loop of _extract_main_content for one selector: <<n>> when it
\* returns n, <<>> when the loop goes on
try_selector(t, present, selector) ==
    Let(select(t, present, selector), LAMBDA elements :
        IF elements = {} THEN <<>>
        ELSE Let(max_by_text(t, present, elements), LAMBDA main_element :
                 IF get_text_len(t, present, main_element) > MinContentLen
                 THEN <<main_element>>
                 ELSE <<>>))

\* MarkdownConverterService._extract_main_content, from the k-th selector on:
\* <<n>> for the tag it returns, <<>> for None
RECURSIVE extract_main_content_from(_, _, _)
extract_main_content_from(t, present, k) ==
    IF k > Len(main_selectors) THEN <<>>
    ELSE Let(try_selector(t, present, main_selectors[k]), LAMBDA found :
             IF found # <<>> THEN found
             ELSE extract_main_content_from(t, present, k + 1))

\* MarkdownConverterService._extract_main_content
extract_main_content(t, present) ==
    extract_main_content_from(t, present, 1)

\* `soup.find('body') or soup`: the first body tag, else the soup itself (0)
body_or_soup(t, present) ==
    IF find_all_tag(t, present, "body") = {} THEN 0
    ELSE CHOOSE n \in find_all_tag(t, present, "body") :
             \A k \in find_all_tag(t, present, "body") : n <= k

\* element.children, in order, without the leading text of element
child_nodes(t, present, element) ==
    SelectSeq([k \in 1..Len(t) |-> k], LAMBDA k : k \in present /\ t[k].parent = element)

\* href / src as the renderer writes it: joined to base_url unless base_url is
\* empty or the value starts with one of the prefixes
resolve(base_url, value, prefixes) ==
    IF base_url # <<>> /\ ~\E prefix \in prefixes : StartsWith(value, prefix)
    THEN urljoin(base_url, value)
    ELSE [url |-> value, err |-> FALSE]

\* one part of the Markdown: what is written for node, and the target of a
\* link or an image
Part(part, node, target) ==
    [part |-> part, node |-> node, target |-> target]

\* a link or image part with the resolved target, or the exception of urljoin
TargetPart(part, node, resolved) ==
    IF resolved.err THEN <<Part("raise", node, <<>>)>>
    ELSE <<Part(part, node, resolved.url)>>

\* MarkdownConverterService._convert_to_markdown and _convert_tag_to_markdown:
\* the parts joined with newlines. In _convert_to_markdown a child that is a
\* str (the text of the element, and any comment, Comment being a subclass of
\* str) gives its stripped text ("text"); a child tag gives what
\* _convert_tag_to_markdown returns, unless that is empty.
\* _convert_tag_to_markdown returns "" for a tag without text other than img;
\* a heading and a p give tag.get_text() in their format ("heading", "p"); an
\* a gives "[text](href)" ("link") or its text ("bare"); an img, when images
\* are included, gives "![alt](src)" ("image") or ""; a li gives its text
\* ("bare"); a table, when tables are included, gives what
\* _convert_table_to_markdown returns ("table"); any other tag, a table
\* when tables are not included among them, recurses into its children.
RECURSIVE convert_to_markdown(_, _, _, _, _, _)
RECURSIVE convert_tag_to_markdown(_, _, _, _, _, _)
convert_to_markdown(t, present, element, base_url, include_images, include_tables) ==
    (IF element # 0 /\ t[element].text_len > 0
     THEN <<Part("text", element, <<>>)>>
     ELSE <<>>)
    \o Let(child_nodes(t, present, element), LAMBDA children :
           Flatten([i \in DOMAIN children |->
                       IF IsComment(t, children[i])
                       THEN <<Part("text", children[i], <<>>)>>
                       ELSE convert_tag_to_markdown(t, present, children[i], base_url,
                                                    include_images, include_tables)]))

convert_tag_to_markdown(t, present, tag, base_url, include_images, include_tables) ==
    Let(TagName(t, tag), LAMBDA tag_name :
        IF get_text_len(t, present, tag) = 0 /\ tag_name # "img"
        THEN <<>>
        ELSE IF tag_name = "h1" THEN <<Part("heading", tag, <<>>)>>
        ELSE IF tag_name = "p" THEN <<Part("p", tag, <<>>)>>
        ELSE IF tag_name = "a"
        THEN IF UrlOf(t, tag) # <<>>
             THEN TargetPart("link", tag,
                             resolve(base_url, UrlOf(t, tag),
                                     {S_http_prefix, S_https_prefix,
                                      S_mailto_prefix, S_tel_prefix}))
             ELSE <<Part("bare", tag, <<>>)>>
        ELSE IF tag_name = "img" /\ include_images
        THEN IF UrlOf(t, tag) # <<>>
             THEN TargetPart("image", tag,
                             resolve(base_url, UrlOf(t, tag),
                                     {S_http_prefix, S_https_prefix, S_data_prefix}))
             ELSE <<>>
        ELSE IF tag_name = "li" THEN <<Part("bare", tag, <<>>)>>
        ELSE IF tag_name = "table" /\ include_tables THEN <<Part("table", tag, <<>>)>>
        ELSE convert_to_markdown(t, present, tag, base_url, include_images,
                                 include_tables))

\* html_to_markdown from the located element on: the parts of the Markdown, or
\* "" when the conversion raises. The final _clean_markdown keeps every line
\* that is not blank, so it keeps every part.
render(t, present, main_content, args) ==
    Let(convert_to_markdown(t, present, main_content, args.base_url,
                            args.include_images, args.include_tables), LAMBDA parts :
        [present |-> present, main_content |-> main_content,
         markdown |-> IF \E i \in DOMAIN parts : parts[i].part = "raise"
                      THEN <<>> ELSE parts])

\* a slip: the sanitizer runs whatever clean_html says
html_to_markdown_always_clean(t, args) ==
    Let(sanitize(t, DOMAIN t), LAMBDA present :
    Let(extract_main_content(t, present), LAMBDA found :
    Let(IF found # <<>> THEN found[1] ELSE body_or_soup(t, present), LAMBDA main_content :
        render(t, present, main_content, args))))

\* MarkdownConverterService.html_to_markdown: the tree after the optional
\* sanitizer, the element that is rendered (0: the soup), and the parts of the
\* Markdown. An empty html_content returns "" at once.
html_to_markdown(t, args) ==
    IF t = <<>> THEN [present |-> {}, main_content |-> 0, markdown |-> <<>>]
    ELSE
    Let(IF args.clean_html THEN sanitize(t, DOMAIN t) ELSE DOMAIN t, LAMBDA present :
    Let(extract_main_content(t, present), LAMBDA found :
    Let(IF found # <<>> THEN found[1] ELSE body_or_soup(t, present), LAMBDA main_content :
        render(t, present, main_content, args))))

\* the arguments of html_to_markdown: clean_html as given, base_url,
\* include_images and include_tables at the values the request carries
MdArgs(clean, base_urls, images, tables) ==
    [clean_html : clean, base_url : base_urls, include_images : images,
     include_tables : tables]

\* the kinds of nodes of the trees handed to the sanitizer alone
SanKinds ==
    {"div", "nav", "sidebar", "lead", "banner", "content", "comment"}

\* the kinds of nodes of the trees handed to html_to_markdown
MdKinds ==
    {"body", "div", "main", "article", "content", "nav", "sitenav", "comment"}

MdIdleValue ==
    [state |-> "idle", passes |-> 0, present |-> {}, before |-> {},
     main_content |-> 0, markdown |-> <<>>]

\* the variables of the Markdown conversion, unused
MdIdle ==
    html = <<>> /\ md_request = [clean_html |-> FALSE, base_url |-> <<>>, include_images |-> TRUE]
    /\ md = MdIdleValue

(***************************************************************************)
(* The sanitizer applied to a tree, and applied again to its result        *)
(***************************************************************************)
InitSanitizer ==
    /\ html \in Trees(SanKinds, {0}, MaxSanNodes)
    /\ md_request \in MdArgs({TRUE}, {<<>>}, {TRUE}, {TRUE})
    /\ md = [MdIdleValue EXCEPT !.state = "parsed", !.present = DOMAIN html]
    /\ UrlIdle
    /\ ClassifyIdle
    /\ AuxIdle
    /\ ExtIdle

\* _remove_unwanted_tags(soup); _remove_unwanted_elements(soup)
Sanitize ==
    /\ md.state = "parsed"
    /\ md.passes < MaxPasses
    /\ md' = [md EXCEPT !.passes = @ + 1,
                        !.before = md.present,
                        !.present = sanitize(html, md.present)]
    /\ UNCHANGED <<ext_vars, url_vars, classify_vars, html, md_request, aux_vars>>

NextSanitizer ==
    Sanitize

SpecSanitizer ==
    InitSanitizer /\ [][NextSanitizer]_vars

(***************************************************************************)
(* One call of html_to_markdown                                            *)
(***************************************************************************)
InitMarkdown ==
    /\ html \in Trees(MdKinds, TextLens, MaxMdNodes)
    /\ md_request \in MdArgs(BOOLEAN, {BaseUrl}, {TRUE}, {TRUE})
    /\ md = [MdIdleValue EXCEPT !.state = "pending"]
    /\ UrlIdle
    /\ ClassifyIdle
    /\ AuxIdle
    /\ ExtIdle

HtmlToMarkdown ==
    /\ md.state = "pending"
    /\ \E r \in {html_to_markdown(html, md_request)} :
          md' = [md EXCEPT !.state = "returned",
                           !.present = r.present,
                           !.main_content = r.main_content,
                           !.markdown = r.markdown]
    /\ UNCHANGED <<ext_vars, url_vars, classify_vars, html, md_request, aux_vars>>

NextMarkdown ==
    HtmlToMarkdown

SpecMarkdown ==
    InitMarkdown /\ [][NextMarkdown]_vars

(***************************************************************************)
(* The specifications of URL extraction and of the predicates              *)
(***************************************************************************)
InitUrl ==
    /\ request \in Requests
    /\ document \in Documents
    /\ response = Pending
    /\ ClassifyIdle
    /\ MdIdle
    /\ AuxIdle
    /\ ExtIdle

SpecUrl ==
    InitUrl /\ [][NextUrl]_vars

InitClassify ==
    /\ request \in ClassifyRequests
    /\ document = NoDocument
    /\ response = Pending
    /\ candidate \in Candidates
    /\ verdict = NoVerdict
    /\ MdIdle
    /\ AuxIdle
    /\ ExtIdle

SpecClassify ==
    InitClassify /\ [][NextClassify]_vars

(***************************************************************************)
(* Properties of URL extraction                                            *)
(***************************************************************************)
\* the call of the plain-fetch service has returned a URL list
PlainReturned ==
    response.state = "returned" /\ response.method = "requests" /\ response.success

\* the call of the browser-rendered service has returned a URL list
SeleniumReturned ==
    response.state = "returned" /\ response.method = "selenium" /\ response.success

\* u begins with the scheme http or https, in whatever case, and its colon
HasHttpScheme(u) ==
    \/ StartsWith(Lower(u), S_http \o <<":">>)
    \/ StartsWith(Lower(u), S_https \o <<":">>)

\* C1: the list the plain-fetch _extract_urls returns contains no two equal
\* strings, and every member carries its own scheme, which is http or https.
C1_DistinctHttpUrls ==
    PlainReturned =>
        /\ \A i, j \in DOMAIN response.extracted_urls :
               i # j => response.extracted_urls[i] # response.extracted_urls[j]
        /\ \A i \in DOMAIN response.extracted_urls :
               HasHttpScheme(response.extracted_urls[i])

\* C1, its case: a page with an ftp link among its anchors, and at least two
\* URLs returned
C1_Witness ==
    /\ PlainReturned
    /\ \E i \in DOMAIN document.anchors : document.anchors[i] = H_ftp
    /\ Len(response.extracted_urls) >= 2

\* the host of a netloc: without user information and port, in lower case
HostOf(netloc) ==
    LET ats == {i \in DOMAIN netloc : netloc[i] = "@"}
        hostport == IF ats = {} THEN netloc
                    ELSE From(netloc, (CHOOSE i \in ats : \A k \in ats : k <= i) + 1)
        colons == {i \in DOMAIN hostport :
                      /\ hostport[i] = ":"
                      /\ \A k \in (i + 1)..Len(hostport) : hostport[k] \in Digits}
    IN  Lower(IF colons = {} THEN hostport
              ELSE SubSeq(hostport, 1, (CHOOSE i \in colons : \A k \in colons : i <= k) - 1))

\* the host of the candidate is the host of the request's URL or a sub-domain of it
InternalByHost ==
    LET host == HostOf(urlparse(candidate, <<>>).netloc)
        base_host == HostOf(urlparse(request.url, <<>>).netloc)
    IN  host = base_host \/ EndsWith(host, <<".">> \o base_host)

\* C2: the plain-fetch _should_include_url accepts a URL exactly when its
\* scheme is http or https and either its host is the base host or a
\* sub-domain of it and include_internal is set, or its host is neither and
\* include_external is set.
C2_PlainAcceptsByHost ==
    verdict.state = "done" =>
        (verdict.plain <=>
            /\ HasHttpScheme(candidate)
            /\ \/ InternalByHost /\ request.include_internal
               \/ ~InternalByHost /\ request.include_external)

\* the path of the candidate ends in an excluded file extension
HasExcludedExtension ==
    \E ext \in excluded_extensions : EndsWith(Lower(urlparse(candidate, <<>>).path), ext)

\* C3: the browser-rendered _should_include_url accepts exactly the URLs the
\* plain-fetch predicate accepts and whose path has no excluded extension.
C3_SeleniumIsPlainMinusExtensions ==
    verdict.state = "done" =>
        (verdict.selenium <=> (verdict.plain /\ ~HasExcludedExtension))

\* the smaller of two integers
Min(a, b) ==
    IF a <= b THEN a ELSE b

\* C4: for max_links = N set (N >= 0) and U accepted URLs after deduplication,
\* the plain-fetch _extract_urls returns exactly min(N, U) of them; for
\* max_links unset it returns all U.
C4_ExactlyMinOfMaxLinks ==
    (PlainReturned /\ (request.max_links = None \/ request.max_links[1] >= 0)) =>
        \E U \in {urls_set_of(document, request).urls} :
            /\ \A i \in DOMAIN response.extracted_urls : response.extracted_urls[i] \in U
            /\ Len(response.extracted_urls) =
                   IF request.max_links = None THEN Cardinality(U)
                   ELSE Min(request.max_links[1], Cardinality(U))

\* C5: for max_links = N set (N >= 1), the list the browser-rendered
\* extract_urls_and_text returns has at most N elements.
C5_SeleniumAtMostMaxLinks ==
    (SeleniumReturned /\ request.max_links # None /\ request.max_links[1] >= 1) =>
        Len(response.extracted_urls) <= request.max_links[1]

(***************************************************************************)
(* Properties of the sanitizer                                             *)
(***************************************************************************)
\* value holds word somewhere, letter case ignored
HoldsIgnoringCase(value, word) ==
    \E i \in 1..(Len(value) - Len(word) + 1) :
        \A j \in 1..Len(word) : LowerChar(value[i + j - 1]) = word[j]

\* node n of html is a tag the removal policy names: by its tag name, by one
\* of its class values, or by its id
Unwanted(n) ==
    /\ html[n].kind # "comment"
    /\ \/ \E k \in DOMAIN remove_tags : KindAttrs[html[n].kind].tag = remove_tags[k]
       \/ \E k \in DOMAIN remove_class_patterns :
             \E c \in DOMAIN KindAttrs[html[n].kind].class :
                HoldsIgnoringCase(KindAttrs[html[n].kind].class[c], remove_class_patterns[k])
       \/ \E k \in DOMAIN remove_id_patterns :
             HoldsIgnoringCase(KindAttrs[html[n].kind].id, remove_id_patterns[k])

\* C6: after the sanitizer has run, an element of the original tree is still
\* present exactly when neither it nor an ancestor of it is named by the
\* removal policy, and whatever lies below a removed element is removed too.
C6_PresentIffNoUnwantedAncestor ==
    md.passes = 1 =>
        /\ \A n \in DOMAIN html :
               html[n].kind # "comment" =>
                   (n \in md.present <=> \A a \in AncestorsOrSelf(html, n) : ~Unwanted(a))
        /\ \A n \in DOMAIN html :
               n \notin md.present => Subtree(html, n) \cap md.present = {}

\* C6, its case: an element not named by the policy went with its parent, which
\* is named only through the letter-case-blind match of a class or an id, while
\* another element stayed
C6_Witness ==
    /\ md.passes = 1
    /\ md.present # {}
    /\ \E n \in DOMAIN html :
          /\ n \notin md.present
          /\ ~Unwanted(n)
          /\ html[n].parent # 0
          /\ html[html[n].parent].kind \in {"sidebar", "banner"}

\* C7: running the sanitizer on an already sanitized tree removes nothing.
C7_SecondPassRemovesNothing ==
    md.passes >= 2 => md.present = md.before

\* C7, its case: the first pass removed part of the tree, and a second pass has run
C7_Witness ==
    /\ md.passes = 2
    /\ md.present # {}
    /\ md.present # DOMAIN html

(***************************************************************************)
(* Properties of html_to_markdown                                          *)
(***************************************************************************)
\* C8: with clean_html = true, the text of no HTML comment is part of the
\* Markdown html_to_markdown returns.
C8_NoCommentTextInMarkdown ==
    (md.state = "returned" /\ md_request.clean_html) =>
        \A i \in DOMAIN md.markdown : html[md.markdown[i].node].kind # "comment"

\* the matches of the k-th selector that have more than 100 characters of text
Qualifying(t, present, k) ==
    {n \in select(t, present, main_selectors[k]) :
        get_text_len(t, present, n) > MinContentLen}

\* the first body element, or the whole tree (0) when there is no body
BodyOrWhole(t, present) ==
    IF \E n \in present : t[n].kind = "body"
    THEN CHOOSE n \in present :
             t[n].kind = "body" /\ \A m \in present : t[m].kind = "body" => n <= m
    ELSE 0

\* the element the locator stage is to hand to the renderer: the match with
\* the most text (the first of them) of the first selector with a match of
\* more than 100 characters; without such a selector the first body element,
\* or the whole tree (0) when there is no body
LocatedRoot(t, present) ==
    IF \E k \in DOMAIN main_selectors : Qualifying(t, present, k) # {}
    THEN LET k == CHOOSE k \in DOMAIN main_selectors :
                      /\ Qualifying(t, present, k) # {}
                      /\ \A j \in 1..(k - 1) : Qualifying(t, present, j) = {}
         IN  CHOOSE n \in Qualifying(t, present, k) :
                 \A m \in select(t, present, main_selectors[k]) :
                     \/ get_text_len(t, present, m) < get_text_len(t, present, n)
                     \/ (get_text_len(t, present, m) = get_text_len(t, present, n)
                         /\ n <= m)
    ELSE BodyOrWhole(t, present)

\* C9: the locator returns the match with the most text of the first selector,
\* in declared order, that has a match of more than 100 characters, whatever
\* later selectors match; without such a selector the body is rendered, or the
\* whole tree when there is no body.
C9_FirstQualifyingSelectorWins ==
    md.state = "returned" => md.main_content = LocatedRoot(html, md.present)

\* C9, its case: a main element is rendered although a match of the later
\* selector .content holds more text
C9_Witness ==
    /\ md.state = "returned"
    /\ md.main_content # 0
    /\ html[md.main_content].kind = "main"
    /\ \E n \in md.present :
          /\ html[n].kind = "content"
          /\ get_text_len(html, md.present, n) >
                 get_text_len(html, md.present, md.main_content)

\* C10 as stated: with clean_html = false neither the sanitizer nor the locator
\* runs, the Markdown is rendered from the whole document.
C10_WholeDocumentRendered ==
    (md.state = "returned" /\ ~md_request.clean_html) =>
        /\ md.present = DOMAIN html
        /\ md.main_content = BodyOrWhole(html, DOMAIN html)

\* C10, amended: with clean_html = false the sanitizer does not run, so nothing
\* is removed, but the locator does: the Markdown is rendered from the element
\* the locator returns for the unsanitized tree, and from the body or the whole
\* tree only when the locator returns none.
C10_LocatorRunsWithoutSanitizer ==
    (md.state = "returned" /\ ~md_request.clean_html) =>
        /\ md.present = DOMAIN html
        /\ md.main_content = LocatedRoot(html, DOMAIN html)
        /\ md.markdown = convert_to_markdown(html, DOMAIN html, md.main_content,
                                            md_request.base_url, md_request.include_images,
                                            md_request.include_tables)

\* C10, its case: clean_html is false, the tree holds a nav element, which
\* stays, and a main element of more than 100 characters, which is rendered
C10_Witness ==
    /\ md.state = "returned"
    /\ ~md_request.clean_html
    /\ md.main_content # 0
    /\ html[md.main_content].kind = "main"
    /\ \E n \in md.present : html[n].kind = "nav"

(***************************************************************************)
(* html_to_markdown on documents with links, images and paragraphs         *)
(***************************************************************************)
\* the kinds of nodes of the documents with links and images
RenderKinds ==
    {"div", "p", "h1", "li", "a_rel", "a_abs", "a_mailto", "a_data", "a_none",
     "img_rel", "img_data", "img_none"}

\* the largest number of nodes of a document with links and images
MaxRenderNodes ==
    2

\* base_url is the page's URL, or left at its default ""
InitRender ==
    /\ html \in Trees(RenderKinds, {0, ShortLen}, MaxRenderNodes)
    /\ md_request \in MdArgs(BOOLEAN, {<<>>, BaseUrl}, BOOLEAN, {TRUE})
    /\ md = [MdIdleValue EXCEPT !.state = "pending"]
    /\ UrlIdle
    /\ ClassifyIdle
    /\ AuxIdle
    /\ ExtIdle

SpecRender ==
    InitRender /\ [][NextMarkdown]_vars

\* u begins with a scheme and its colon
SchemeQualified(u) ==
    \E i \in 2..Len(u) :
        /\ u[i] = ":"
        /\ IsAlpha(u[1])
        /\ \A k \in 1..(i - 1) : u[k] \in SchemeChars

\* C11: the target written for an a or img element is scheme-qualified when
\* the href or src is relative, and is the href or src itself, unchanged, when
\* that starts with mailto:, tel: or data: or is absolute already.
C11_TargetsAbsolute ==
    md.state = "returned" =>
        \A i \in DOMAIN md.markdown :
            md.markdown[i].part \in {"link", "image"} =>
                IF SchemeQualified(KindUrls[html[md.markdown[i].node].kind])
                THEN md.markdown[i].target = KindUrls[html[md.markdown[i].node].kind]
                ELSE SchemeQualified(md.markdown[i].target)

\* the nodes of the subtree that is rendered: what is attached below the
\* located element
Rendered ==
    IF md.main_content = 0 THEN md.present
    ELSE (Subtree(html, md.main_content) \cap md.present) \ {md.main_content}

\* C12: every a element of the rendered subtree that has text is written as
\* [text](href) when it has an href, and as its bare text when it has none,
\* wherever in the subtree it sits.
C12_EveryLinkWritten ==
    md.state = "returned" =>
        \A n \in Rendered :
            (KindAttrs[html[n].kind].tag = "a" /\ get_text_len(html, md.present, n) > 0) =>
                \E i \in DOMAIN md.markdown :
                    /\ md.markdown[i].node = n
                    /\ md.markdown[i].part =
                           IF KindUrls[html[n].kind] # <<>> THEN "link" ELSE "bare"

\* C13: an img element of the rendered subtree is written as ![alt](src) exactly
\* when include_images is true and it has a src, whatever text the elements
\* around it have.
C13_ImageIffEnabledAndSrc ==
    md.state = "returned" =>
        \A n \in Rendered :
            KindAttrs[html[n].kind].tag = "img" =>
                ((\E i \in DOMAIN md.markdown :
                     md.markdown[i].node = n /\ md.markdown[i].part = "image")
                 <=> (md_request.include_images /\ KindUrls[html[n].kind] # <<>>))

(***************************************************************************)
(* MarkdownConverterService._convert_table_to_markdown                     *)
(*                                                                         *)
(* table is the sequence of the tr elements of a table element in document *)
(* order. section is the element the row is a child of: the thead, the     *)
(* tbody, the tfoot, or the table itself; a thead, tbody or tfoot exists   *)
(* when a row lies in it. cells are the th and td elements of the row.     *)
(***************************************************************************)
\* the largest number of rows of a table
MaxRows ==
    3

Cell(tag, text) ==
    [tag |-> tag, text |-> text]

\* the rows of the model, by their cells
RowChoices ==
    {<<>>,
     <<Cell("th", "a")>>,
     <<Cell("td", "a")>>,
     <<Cell("td", "b")>>,
     <<Cell("th", "a"), Cell("th", "b")>>}

\* the place of a section in the table: head, body, foot
SectionRank ==
    [thead |-> 1, table |-> 2, tbody |-> 2, tfoot |-> 3]

Tables ==
    UNION {{t \in [1..n -> [section : DOMAIN SectionRank, cells : RowChoices]] :
              \A k \in 1..(n - 1) :
                 SectionRank[t[k].section] <= SectionRank[t[k + 1].section]}
           : n \in 0..MaxRows}

\* the rows of t, in order, that lie in S
RowsIn(t, S) ==
    SelectSeq([k \in 1..Len(t) |-> k], LAMBDA k : k \in S)

\* thead.find_all('tr')
thead_rows(t) ==
    {k \in DOMAIN t : t[k].section = "thead"}

\* tbody = table.find('tbody') or table; tbody.find_all('tr')
tbody_rows(t) ==
    IF \E k \in DOMAIN t : t[k].section = "tbody"
    THEN {k \in DOMAIN t : t[k].section = "tbody"}
    ELSE DOMAIN t

\* one line of the Markdown table, made of the cells of row
Line(line, row, cells) ==
    [line |-> line, row |-> row, cells |-> cells]

\* a slip: the header line without the separator line
header_lines_no_separator(t) ==
    IF thead_rows(t) = {} THEN <<>>
    ELSE Let(CHOOSE k \in thead_rows(t) : \A j \in thead_rows(t) : k <= j,
             LAMBDA header_row :
                 IF t[header_row].cells = <<>> THEN <<>>
                 ELSE <<Line("header", header_row, Len(t[header_row].cells))>>)

\* the first part of _convert_table_to_markdown: the header line and the
\* separator line, for a thead whose first tr has cells
header_lines(t) ==
    IF thead_rows(t) = {} THEN <<>>
    ELSE Let(CHOOSE k \in thead_rows(t) : \A j \in thead_rows(t) : k <= j,
             LAMBDA header_row :
                 IF t[header_row].cells = <<>> THEN <<>>
                 ELSE <<Line("header", header_row, Len(t[header_row].cells)),
                        Line("separator", header_row, Len(t[header_row].cells))>>)

\* `tr in thead.find_all('tr')`: list membership is by ==, and two tags are
\* equal when their names, attributes and contents are
in_thead(t, tr) ==
    \E h \in thead_rows(t) : t[h].cells = t[tr].cells

\* the second part of _convert_table_to_markdown: one line for each tr of the
\* tbody, or of the table, that is not skipped and has cells
body_lines(t) ==
    Let(RowsIn(t, tbody_rows(t)), LAMBDA trs :
        Flatten([i \in DOMAIN trs |->
                    IF thead_rows(t) # {} /\ in_thead(t, trs[i]) THEN <<>>
                    ELSE IF t[trs[i]].cells = <<>> THEN <<>>
                    ELSE <<Line("row", trs[i], Len(t[trs[i]].cells))>>]))

\* MarkdownConverterService._convert_table_to_markdown
convert_table_to_markdown(t) ==
    header_lines(t) \o body_lines(t)

InitTable ==
    /\ table \in Tables
    /\ table_md = NotReturned
    /\ CleanIdle
    /\ MetaIdle
    /\ UrlIdle
    /\ ClassifyIdle
    /\ MdIdle
    /\ ExtIdle

ConvertTableToMarkdown ==
    /\ table_md.state = "pending"
    /\ table_md' = [state |-> "returned", rows |-> convert_table_to_markdown(table)]
    /\ UNCHANGED <<ext_vars, url_vars, classify_vars, md_vars, table, clean_vars, meta_vars>>

NextTable ==
    ConvertTableToMarkdown

SpecTable ==
    InitTable /\ [][NextTable]_vars

(***************************************************************************)
(* Properties of the table conversion                                      *)
(***************************************************************************)
\* the first row of the thead, 0 when the table has no row in a thead
HeaderRow ==
    IF \E k \in DOMAIN table : table[k].section = "thead"
    THEN CHOOSE k \in DOMAIN table :
             /\ table[k].section = "thead"
             /\ \A j \in 1..(k - 1) : table[j].section # "thead"
    ELSE 0

\* the table has a thead whose header row has cells
HasHeader ==
    HeaderRow # 0 /\ table[HeaderRow].cells # <<>>

\* the rows outside the thead
BodyRows ==
    {k \in DOMAIN table : table[k].section # "thead"}

\* the rows the lines from the i-th on are made of
RowsFrom(lines, i) ==
    [k \in 1..(Len(lines) - i + 1) |-> lines[k + i - 1].row]

\* rows is strictly increasing: document order, no row twice
Increasing(rows) ==
    \A i, j \in DOMAIN rows : i < j => rows[i] < rows[j]

RowsWithCells ==
    {k \in DOMAIN table : table[k].cells # <<>> /\ k # HeaderRow}

\* C15: for a table with a thead and a header row, the separator has as many
\* cells as the header, and after it every row with a cell is emitted exactly
\* once, in document order; only the row emitted as the header is left out.
C15_OnlyHeaderRowLeftOut ==
    (table_md.state = "returned" /\ HasHeader) =>
        /\ Len(table_md.rows) >= 2
        /\ table_md.rows[2].line = "separator"
        /\ table_md.rows[2].cells = Len(table[HeaderRow].cells)
        /\ Increasing(RowsFrom(table_md.rows, 3))
        /\ {table_md.rows[i].row : i \in 3..Len(table_md.rows)} = RowsWithCells

\* C16: for a table without a thead the output has no separator line, and
\* every row with a cell is one plain line, in document order.
C16_NoTheadAllRowsPlain ==
    (table_md.state = "returned" /\ HeaderRow = 0) =>
        /\ \A i \in DOMAIN table_md.rows : table_md.rows[i].line = "row"
        /\ Increasing(RowsFrom(table_md.rows, 1))
        /\ {table_md.rows[i].row : i \in DOMAIN table_md.rows} = RowsWithCells

(***************************************************************************)
(* MarkdownConverterService._clean_markdown                                *)
(***************************************************************************)
\* the longest string handed to _clean_markdown
MaxRawLen ==
    6

\* the characters of those strings: two letters, a blank, a line break
RawChars ==
    {"a", "b", " ", "\n"}

RawStrings ==
    UNION {[1..n -> RawChars] : n \in 0..MaxRawLen}

\* the characters str.rstrip() removes
Whitespace ==
    {" ", "\t", "\r", "\n"}

\* markdown.split('\n')
SplitLines(s) ==
    Let(<<0>> \o SelectSeq([i \in 1..Len(s) |-> i], LAMBDA i : s[i] = "\n")
             \o <<Len(s) + 1>>,
        LAMBDA cuts :
            [k \in 1..(Len(cuts) - 1) |-> SubSeq(s, cuts[k] + 1, cuts[k + 1] - 1)])

\* '\n'.join(lines)
RECURSIVE JoinLines(_)
JoinLines(lines) ==
    IF lines = <<>> THEN <<>>
    ELSE IF Len(lines) = 1 THEN lines[1]
    ELSE lines[1] \o <<"\n">> \o JoinLines(Tail(lines))

\* a slip: every empty line is kept
RECURSIVE collapse_keep_all(_, _, _)
collapse_keep_all(lines, i, prev_empty) ==
    IF i > Len(lines) THEN <<>>
    ELSE <<RStrip(lines[i], Whitespace)>> \o collapse_keep_all(lines, i + 1, FALSE)

\* the loop of _clean_markdown from the i-th line on: a line is right-trimmed;
\* it is kept when it is not empty, or when the line kept before it was not
RECURSIVE collapse(_, _, _)
collapse(lines, i, prev_empty) ==
    IF i > Len(lines) THEN <<>>
    ELSE Let(RStrip(lines[i], Whitespace), LAMBDA line :
             IF line # <<>> THEN <<line>> \o collapse(lines, i + 1, FALSE)
             ELSE IF ~prev_empty THEN <<line>> \o collapse(lines, i + 1, TRUE)
             ELSE collapse(lines, i + 1, prev_empty))

\* `while cleaned_lines and not cleaned_lines[0]: cleaned_lines.pop(0)`
RECURSIVE pop_leading(_)
pop_leading(lines) ==
    IF lines # <<>> /\ lines[1] = <<>> THEN pop_leading(Tail(lines)) ELSE lines

\* `while cleaned_lines and not cleaned_lines[-1]: cleaned_lines.pop()`
RECURSIVE pop_trailing(_)
pop_trailing(lines) ==
    IF lines # <<>> /\ lines[Len(lines)] = <<>>
    THEN pop_trailing(SubSeq(lines, 1, Len(lines) - 1))
    ELSE lines

\* MarkdownConverterService._clean_markdown
clean_markdown(markdown) ==
    IF markdown = <<>> THEN <<>>
    ELSE Let(collapse(SplitLines(markdown), 1, FALSE), LAMBDA cleaned_lines :
             JoinLines(pop_trailing(pop_leading(cleaned_lines))))

InitClean ==
    /\ raw \in RawStrings
    /\ cleaned = NotReturned
    /\ TableIdle
    /\ MetaIdle
    /\ UrlIdle
    /\ ClassifyIdle
    /\ MdIdle
    /\ ExtIdle

CleanMarkdown ==
    /\ cleaned.state = "pending"
    /\ cleaned' = [state |-> "returned", text |-> clean_markdown(raw)]
    /\ UNCHANGED <<ext_vars, url_vars, classify_vars, md_vars, table_vars, raw, meta_vars>>

NextClean ==
    CleanMarkdown

SpecClean ==
    InitClean /\ [][NextClean]_vars

(***************************************************************************)
(* Properties of the clean pass                                            *)
(***************************************************************************)
\* the lines of s
LinesOf(s) ==
    IF s = <<>> THEN <<>> ELSE SplitLines(s)

\* a line without any character other than whitespace
Blank(line) ==
    \A i \in DOMAIN line : line[i] \in Whitespace

\* line without the whitespace at its end
RightTrimmed(line) ==
    IF Blank(line) THEN <<>>
    ELSE SubSeq(line, 1, CHOOSE i \in DOMAIN line :
                             /\ line[i] \notin Whitespace
                             /\ \A k \in (i + 1)..Len(line) : line[k] \in Whitespace)

\* the lines of s that are not blank, right-trimmed, in their order
NonBlankLines(s) ==
    Let(LinesOf(s), LAMBDA lines :
        Let(SelectSeq([i \in DOMAIN lines |-> i], LAMBDA i : ~Blank(lines[i])),
            LAMBDA kept : [k \in DOMAIN kept |-> RightTrimmed(lines[kept[k]])]))

\* C17: the output of _clean_markdown has no two consecutive blank lines, does
\* not start or end with a blank line, has no line ending in whitespace, and
\* keeps every non-blank input line, right-trimmed, in its original order.
C17_CleanOutputShape ==
    cleaned.state = "returned" =>
        \E lines \in {LinesOf(cleaned.text)} :
            /\ \A i \in 1..(Len(lines) - 1) : ~(Blank(lines[i]) /\ Blank(lines[i + 1]))
            /\ lines # <<>> => (~Blank(lines[1]) /\ ~Blank(lines[Len(lines)]))
            /\ \A i \in DOMAIN lines :
                   lines[i] # <<>> => lines[i][Len(lines[i])] \notin Whitespace
            /\ NonBlankLines(cleaned.text) = NonBlankLines(raw)

\* C17, its case: two different lines, the first with a blank at its end, and
\* two blank lines between them, reduced to one
C17_Witness ==
    /\ cleaned.state = "returned"
    /\ raw = <<"a", " ", "\n", "\n", "\n", "b">>
    /\ cleaned.text = <<"a", "\n", "\n", "b">>

(***************************************************************************)
(* Properties of the sanitized conversion                                  *)
(***************************************************************************)
\* html is made of a nav with class site-nav and an article of more than 100
\* characters, side by side
NavAndArticle ==
    /\ Len(html) = 2
    /\ html[1].parent = 0 /\ html[2].parent = 0
    /\ {html[1].kind, html[2].kind} = {"sitenav", "article"}
    /\ \A n \in 1..2 : html[n].kind = "article" => html[n].text_len > MinContentLen

\* C18: with clean_html = true nothing in the Markdown comes from inside an
\* element the sanitizer removes; for a nav with class site-nav beside an
\* article of more than 100 characters the Markdown is rendered from the
\* article and holds the article's text only.
C18_NoTextOfRemovedElements ==
    (md.state = "returned" /\ md_request.clean_html) =>
        /\ \A i \in DOMAIN md.markdown :
               \A a \in AncestorsOrSelf(html, md.markdown[i].node) : ~Unwanted(a)
        /\ NavAndArticle =>
               /\ html[md.main_content].kind = "article"
               /\ \A i \in DOMAIN md.markdown : md.markdown[i].node = md.main_content

\* C18, its case: the nav has text, the article is rendered
C18_Witness ==
    /\ md.state = "returned"
    /\ md_request.clean_html
    /\ NavAndArticle
    /\ \A n \in 1..2 : html[n].text_len > 0
    /\ md.markdown # <<>>

(***************************************************************************)
(* MarkdownConverterService.extract_metadata: title and description        *)
(*                                                                         *)
(* page holds, for the first title, h1, meta named description and p       *)
(* element of the document, <<>> when there is none, else <<n>> with n the *)
(* length of its stripped text (for the meta: of its content attribute, 0  *)
(* when it has none).                                                      *)
(***************************************************************************)
\* `if len(text) > 20`
DescMinLen ==
    20

\* text[:200]
DescMaxLen ==
    200

\* the length of a title or h1 text of the model
TitleLen ==
    5

\* the length of a meta description of the model, longer than text[:200]
MetaLen ==
    250

\* the most heading elements of a page of the model
MaxHeadings ==
    2

\* for i in range(1, 7)
HeadingLevels ==
    1 .. 6

\* the h1..h6 elements of a page in document order, each with its level and
\* the length of its stripped text
HeadingLists ==
    UNION {[1 .. n -> [level : HeadingLevels, len : {0, TitleLen}]] : n \in 0 .. MaxHeadings}

\* soup.find_all('h<i>'): the positions of the headings of level i, in
\* document order
find_all_heading(hs, i) ==
    SelectSeq([k \in DOMAIN hs |-> k], LAMBDA k : hs[k].level = i)

\* soup.find('h1'): the first h1 of the page
find_h1(hs) ==
    Let(find_all_heading(hs, 1),
        LAMBDA found : IF found = <<>> THEN <<>> ELSE <<hs[found[1]].len>>)

Pages ==
    {[title |-> t, h1 |-> find_h1(hs), meta |-> d, p |-> q, headings |-> hs] :
        t \in {<<>>, <<0>>, <<TitleLen>>},
        d \in {<<>>, <<0>>, <<MetaLen>>},
        q \in {<<>>, <<0>>, <<DescMinLen>>, <<DescMinLen + 1>>, <<DescMaxLen>>,
               <<DescMaxLen + 1>>},
        hs \in HeadingLists}

\* a text of the result: the element it is taken from, its length, and
\* whether '...' is appended to it
Text(from, len, marker) ==
    [from |-> from, len |-> len, marker |-> marker]

\* the literal ""
EmptyText ==
    Text("none", 0, FALSE)

\* MarkdownConverterService._extract_title
extract_title(soup) ==
    IF soup.title # <<>> THEN Text("title", soup.title[1], FALSE)
    ELSE IF soup.h1 # <<>> THEN Text("h1", soup.h1[1], FALSE)
    ELSE EmptyText

\* the paragraph branch of _extract_description, for a stripped text of len
\* characters: text[:200] + '...' if len(text) > 200 else text
paragraph_description(len) ==
    IF len > DescMinLen
    THEN IF len > DescMaxLen THEN Text("p", DescMaxLen, TRUE) ELSE Text("p", len, FALSE)
    ELSE EmptyText

\* MarkdownConverterService._extract_description
extract_description(soup) ==
    IF soup.meta # <<>> THEN Text("meta", soup.meta[1], FALSE)
    ELSE IF soup.p # <<>> THEN paragraph_description(soup.p[1])
    ELSE EmptyText

\* the entries _extract_headings appends for the headings of level i: one
\* for each whose stripped text is not empty
headings_of_level(hs, i) ==
    Let(SelectSeq(find_all_heading(hs, i), LAMBDA k : hs[k].len > 0),
        LAMBDA kept : [n \in DOMAIN kept |-> [level |-> i, element |-> kept[n]]])

\* MarkdownConverterService._extract_headings: the levels 1 to 6 in turn,
\* and within a level the elements in document order
extract_headings(soup) ==
    Flatten([i \in HeadingLevels |-> headings_of_level(soup.headings, i)])

InitMetadata ==
    /\ page \in Pages
    /\ metadata = NotReturned
    /\ TableIdle
    /\ CleanIdle
    /\ UrlIdle
    /\ ClassifyIdle
    /\ MdIdle
    /\ ExtIdle

\* MarkdownConverterService.extract_metadata: an empty html_content gives the
\* empty metadata at once
extract_metadata(html_page) ==
    IF html_page = <<>>
    THEN [title |-> EmptyText, description |-> EmptyText, headings |-> <<>>]
    ELSE [title |-> extract_title(html_page),
          description |-> extract_description(html_page),
          headings |-> extract_headings(html_page)]

ExtractMetadata ==
    /\ metadata.state = "pending"
    /\ \E r \in {extract_metadata(page)} :
          metadata' = [state |-> "returned",
                       title |-> r.title,
                       description |-> r.description,
                       headings |-> r.headings]
    /\ UNCHANGED <<ext_vars, url_vars, classify_vars, md_vars, table_vars, clean_vars, page>>

NextMetadata ==
    ExtractMetadata

SpecMetadata ==
    InitMetadata /\ [][NextMetadata]_vars

(***************************************************************************)
(* Properties of the metadata                                              *)
(***************************************************************************)
\* the element of the page gives text
GivesText(element) ==
    element # <<>> /\ element[1] > 0

\* C19: the title is the text of the title element if that gives text, else
\* the text of the first h1 if that gives text, else empty.
C19_TitleFirstAvailable ==
    metadata.state = "returned" =>
        IF GivesText(page.title)
        THEN metadata.title.from = "title" /\ metadata.title.len = page.title[1]
        ELSE IF GivesText(page.h1)
        THEN metadata.title.from = "h1" /\ metadata.title.len = page.h1[1]
        ELSE metadata.title.len = 0

\* C20: the description is the content of the meta description if that is
\* available; else the text of the first p, if longer than 20 characters, cut
\* to 200 characters with a marker exactly when it is longer than 200; else
\* empty; from a paragraph it is never longer than 200 characters.
C20_DescriptionFirstAvailable ==
    metadata.state = "returned" =>
        /\ IF GivesText(page.meta)
           THEN /\ metadata.description.from = "meta"
                /\ metadata.description.len = page.meta[1]
           ELSE IF page.p # <<>> /\ page.p[1] > DescMinLen
           THEN /\ metadata.description.from = "p"
                /\ metadata.description.len = Min(page.p[1], DescMaxLen)
                /\ metadata.description.marker <=> page.p[1] > DescMaxLen
           ELSE metadata.description.len = 0
        /\ metadata.description.from = "p" => metadata.description.len <= DescMaxLen

\* the headings of the page that have text, as positions in document order
HeadingsWithText ==
    SelectSeq([k \in DOMAIN page.headings |-> k], LAMBDA k : page.headings[k].len > 0)

\* every entry of the Headings list carries the level of its element
LevelsRecorded ==
    \A n \in DOMAIN metadata.headings :
        metadata.headings[n].level = page.headings[metadata.headings[n].element].level

\* every heading with text is in the Headings list exactly once
EachHeadingOnce ==
    \A k \in DOMAIN page.headings :
        Cardinality({n \in DOMAIN metadata.headings : metadata.headings[n].element = k})
            = IF page.headings[k].len > 0 THEN 1 ELSE 0

\* C21: the Headings list holds every h1..h6 element with non-empty text
\* exactly once, with its level, in document order whatever the levels are.
C21_HeadingsInDocumentOrder ==
    metadata.state = "returned" =>
        /\ EachHeadingOnce
        /\ LevelsRecorded
        /\ [n \in DOMAIN metadata.headings |-> metadata.headings[n].element]
               = HeadingsWithText

(***************************************************************************)
(* html_to_markdown on documents with tables                               *)
(***************************************************************************)
\* the kinds of nodes of the documents with tables
TableKinds ==
    {"div", "p", "table", "tr", "td"}

\* the largest number of nodes of a document with tables
MaxTableNodes ==
    3

InitRenderTables ==
    /\ html \in Trees(TableKinds, {0, ShortLen}, MaxTableNodes)
    /\ md_request \in MdArgs(BOOLEAN, {BaseUrl}, {TRUE}, BOOLEAN)
    /\ md = [MdIdleValue EXCEPT !.state = "pending"]
    /\ UrlIdle
    /\ ClassifyIdle
    /\ AuxIdle
    /\ ExtIdle

SpecRenderTables ==
    InitRenderTables /\ [][NextMarkdown]_vars

\* the nodes at and below the table elements of the document
InTables ==
    UNION {Subtree(html, n) : n \in {k \in DOMAIN html : html[k].kind = "table"}}

\* C28: with include_tables false the Markdown has no table rows, and no part
\* of it comes from a table: none of the text of the cells is in the output.
C28_TablesContributeNothing ==
    (md.state = "returned" /\ ~md_request.include_tables) =>
        \A i \in DOMAIN md.markdown :
            /\ md.markdown[i].part # "table"
            /\ md.markdown[i].node \notin InTables

(***************************************************************************)
(* The endpoints of app/api                                                *)
(***************************************************************************)
\* the methods the service classes define, by class
ServiceMethods ==
    [UrlExtractorService |-> {"extract_urls_and_markdown"},
     SeleniumExtractorService |-> {"extract_urls_and_text"}]

\* the page behind the URL of a request, as html_to_markdown parses it and as
\* extract_metadata reads it
RenderedPages ==
    {[html |-> <<>>, page |-> <<>>],
     [html |-> <<[kind |-> "h1", parent |-> 0, text_len |-> TitleLen]>>,
      page |-> [title |-> <<>>, h1 |-> <<TitleLen>>, meta |-> <<>>, p |-> <<>>,
                headings |-> <<[level |-> 1, len |-> TitleLen]>>]],
     [html |-> <<[kind |-> "p", parent |-> 0, text_len |-> ShortLen]>>,
      page |-> [title |-> <<>>, h1 |-> <<>>, meta |-> <<>>, p |-> <<ShortLen>>,
                headings |-> <<>>]]}

\* the routes of the two routers
Endpoints ==
    {"post_static", "post_dynamic", "get_static", "get_dynamic",
     "post_markdown", "get_markdown", "post_markdown_clean"}

\* the routes that answer in the markdown call shapes
MarkdownEndpoints ==
    {"post_markdown", "get_markdown", "post_markdown_clean"}

\* a request and the routes it is sent to (one URL route, or the markdown
\* routes): whether its url validates as HttpUrl, the fields of
\* UrlExtractRequest and MarkdownExtractRequest, the page behind the url as
\* URL extraction reads it (document) and as the converter would (rendered),
\* and whether the service objects have an attribute extract_urls ("missing":
\* the classes as they are defined; "bound": the entry point the routes
\* expect, running the service's extraction method)
ApiCalls ==
    [sent_to : {{e} : e \in Endpoints \ MarkdownEndpoints} \cup {MarkdownEndpoints},
     url_valid : BOOLEAN,
     request : {r \in Requests : /\ r.include_external
                                 /\ r.include_internal
                                 /\ r.max_links \in {None, Some(1)}},
     include_images : {TRUE},
     include_tables : BOOLEAN,
     clean_html : BOOLEAN,
     document : {d \in Documents : /\ d.text = <<>>
                                   /\ d.anchors \in {<<>>, <<H_abs_path, H_sub>>}},
     rendered : RenderedPages,
     extract_urls : {"missing", "bound"}]

\* result.html_content of a UrlExtractResponse of the services: neither
\* service passes html_content (nor text_content, nor structured_content), so
\* it keeps its default None
html_content_of(result) ==
    <<>>

\* an extract_urls method of the services as the routes expect it: it runs
\* the extraction method of its service and returns its result
extract_urls_bound(call, class) ==
    {[raised |-> FALSE, result |-> r] :
        r \in IF class = "UrlExtractorService"
              THEN extract_urls_and_markdown(call.document, call.request)
              ELSE extract_urls_and_text(call.document, call.request)}

\* service.extract_urls(request) at a route: it raises AttributeError when the
\* class has no such method
extract_urls_call(call, class) ==
    IF call.extract_urls = "missing" /\ "extract_urls" \notin ServiceMethods[class]
    THEN {[raised |-> TRUE, result |-> Pending]}
    ELSE extract_urls_bound(call, class)

\* raise HTTPException(status_code, detail): exception names the exception
\* whose str(e) the detail quotes after the handler's prefix ("none": the
\* detail is the result's error_message itself)
HttpError(status_code, exception) ==
    [kind |-> "http_error", status_code |-> status_code, exception |-> exception]

\* return result, a UrlExtractResponse
UrlReply(result) ==
    [kind |-> "response", status_code |-> 200, success |-> result.success,
     extracted_urls |-> result.extracted_urls,
     total_links_found |-> result.total_links_found,
     error_message |-> IF result.success THEN "none" ELSE "result.error_message",
     method |-> result.method]

\* the try block of the four URL routes, from the call on: the 400 for a
\* failed result is raised inside the try, HTTPException is an Exception, and
\* the except clause turns whatever it catches into a 500
url_route(called) ==
    IF called.raised THEN HttpError(500, "AttributeError")
    ELSE IF ~called.result.success THEN HttpError(500, "HTTPException(400)")
    ELSE UrlReply(called.result)

\* MarkdownExtractResponse(success=False, extracted_urls=[],
\* total_links_found=0, ...)
MarkdownFailure(error_message) ==
    [kind |-> "response", status_code |-> 200, success |-> FALSE,
     extracted_urls |-> <<>>, total_links_found |-> 0,
     error_message |-> error_message, method |-> "selenium",
     markdown_content |-> <<>>, title |-> EmptyText, description |-> EmptyText,
     headings |-> <<>>, passed |-> {}]

\* MarkdownExtractResponse(success=True, ...); passed: which of html_content,
\* text_content and structured_content the route passes on from the result
MarkdownSuccess(urls, total_links_found, markdown_content, meta, passed) ==
    [kind |-> "response", status_code |-> 200, success |-> TRUE,
     extracted_urls |-> urls, total_links_found |-> total_links_found,
     error_message |-> "none", method |-> "selenium",
     markdown_content |-> markdown_content, title |-> meta.title,
     description |-> meta.description, headings |-> meta.headings,
     passed |-> passed]

\* the arguments the markdown routes hand to html_to_markdown
RouteMdArgs(call) ==
    [clean_html |-> call.clean_html, base_url |-> call.request.url,
     include_images |-> call.include_images, include_tables |-> call.include_tables]

\* the page extract_metadata reads when handed html_content
page_of(call, html_content) ==
    IF html_content = <<>> THEN <<>> ELSE call.rendered.page

\* a variant of the clean route that reports no links
extract_clean_markdown_no_links(call, called) ==
    IF called.raised THEN MarkdownFailure("str(e)")
    ELSE IF ~called.result.success THEN MarkdownFailure("result.error_message")
    ELSE Let(html_content_of(called.result), LAMBDA html_content :
             MarkdownSuccess(<<>>, 0,
                             html_to_markdown(html_content, RouteMdArgs(call)).markdown,
                             extract_metadata(page_of(call, html_content)),
                             {}))

\* extract_markdown_from_webpage, from the call of the service on
extract_markdown_from_webpage(call, called) ==
    IF called.raised THEN MarkdownFailure("str(e)")
    ELSE IF ~called.result.success THEN MarkdownFailure("result.error_message")
    ELSE Let(html_content_of(called.result), LAMBDA html_content :
             MarkdownSuccess(called.result.extracted_urls,
                             called.result.total_links_found,
                             html_to_markdown(html_content, RouteMdArgs(call)).markdown,
                             extract_metadata(page_of(call, html_content)),
                             {"html_content", "text_content", "structured_content"}))

\* extract_clean_markdown_from_webpage, from the call of the service on
extract_clean_markdown_from_webpage(call, called) ==
    IF called.raised THEN MarkdownFailure("str(e)")
    ELSE IF ~called.result.success THEN MarkdownFailure("result.error_message")
    ELSE Let(html_content_of(called.result), LAMBDA html_content :
             MarkdownSuccess(called.result.extracted_urls,
                             called.result.total_links_found,
                             html_to_markdown(html_content, RouteMdArgs(call)).markdown,
                             extract_metadata(page_of(call, html_content)),
                             {}))

InitApi ==
    /\ api_call \in ApiCalls
    /\ api_reply = [e \in Endpoints |-> NotReturned]
    /\ UrlIdle
    /\ ClassifyIdle
    /\ MdIdle
    /\ AuxIdle
    /\ DriverIdle
    /\ SharedIdle

\* the route e answers api_call with reply, having got result from the service
\* (Pending: no result)
Answer(e, result, reply) ==
    /\ e \in api_call.sent_to
    /\ api_reply[e] = NotReturned
    /\ api_reply' = [api_reply EXCEPT ![e] = [state |-> "returned", result |-> result,
                                              reply |-> reply]]
    /\ UNCHANGED <<api_call, driver_vars, shared_vars, url_vars, classify_vars, md_vars,
                   aux_vars>>

\* a route whose request object does not validate: the GET routes build it
\* inside their try
Invalid(e) ==
    /\ ~api_call.url_valid
    /\ Answer(e, Pending, HttpError(500, "ValidationError"))

\* POST /extract/static; the body has been validated before the handler runs
ExtractStaticWebpage ==
    /\ api_call.url_valid
    /\ \E called \in extract_urls_call(api_call, "UrlExtractorService") :
          Answer("post_static", called.result, url_route(called))

\* POST /extract/dynamic
ExtractDynamicWebpage ==
    /\ api_call.url_valid
    /\ \E called \in extract_urls_call(api_call, "SeleniumExtractorService") :
          Answer("post_dynamic", called.result, url_route(called))

\* GET /extract/static
ExtractStaticWebpageGet ==
    \/ Invalid("get_static")
    \/ /\ api_call.url_valid
       /\ \E called \in extract_urls_call(api_call, "UrlExtractorService") :
             Answer("get_static", called.result, url_route(called))

\* GET /extract/dynamic
ExtractDynamicWebpageGet ==
    \/ Invalid("get_dynamic")
    \/ /\ api_call.url_valid
       /\ \E called \in extract_urls_call(api_call, "SeleniumExtractorService") :
             Answer("get_dynamic", called.result, url_route(called))

\* POST /extract/markdown
ExtractMarkdownFromWebpage ==
    /\ api_call.url_valid
    /\ \E called \in extract_urls_call(api_call, "SeleniumExtractorService") :
          Answer("post_markdown", called.result,
                 extract_markdown_from_webpage(api_call, called))

\* GET /extract/markdown: builds the request and awaits the POST handler
ExtractMarkdownFromWebpageGet ==
    \/ Invalid("get_markdown")
    \/ /\ api_call.url_valid
       /\ \E called \in extract_urls_call(api_call, "SeleniumExtractorService") :
             Answer("get_markdown", called.result,
                    extract_markdown_from_webpage(api_call, called))

\* POST /extract/markdown/clean
ExtractCleanMarkdownFromWebpage ==
    /\ api_call.url_valid
    /\ \E called \in extract_urls_call(api_call, "SeleniumExtractorService") :
          Answer("post_markdown_clean", called.result,
                 extract_clean_markdown_from_webpage(api_call, called))

NextApi ==
    \/ ExtractStaticWebpage
    \/ ExtractDynamicWebpage
    \/ ExtractStaticWebpageGet
    \/ ExtractDynamicWebpageGet
    \/ ExtractMarkdownFromWebpage
    \/ ExtractMarkdownFromWebpageGet
    \/ ExtractCleanMarkdownFromWebpage

SpecApi ==
    InitApi /\ [][NextApi]_vars

(***************************************************************************)
(* Properties of the endpoints                                             *)
(***************************************************************************)
\* the route e has answered
Answered(e) ==
    api_reply[e].state = "returned"

\* C22: whatever the collaborator does, every route answers with a response
\* object that carries a success flag, and a failure has success false, an
\* error message, no URLs and a count of 0; no route answers with an
\* exception or an HTTP error.
C22_NoFaultEscapes ==
    \A e \in Endpoints :
        Answered(e) =>
            IF api_reply[e].reply.kind = "response"
            THEN api_reply[e].reply.success
                    \/ /\ api_reply[e].reply.error_message # "none"
                       /\ api_reply[e].reply.extracted_urls = <<>>
                       /\ api_reply[e].reply.total_links_found = 0
            ELSE FALSE

\* the full and the clean route have both answered, each having got the same
\* result from the service: the same request and the same rendered page
SamePageBothShapes ==
    /\ Answered("post_markdown")
    /\ Answered("post_markdown_clean")
    /\ api_reply["post_markdown"].result = api_reply["post_markdown_clean"].result

GotFailedResult(e) ==
    api_reply[e].result.state = "returned" /\ ~api_reply[e].result.success

\* the call of the extractor at a route was reached and raised
ExtractorCallRaised ==
    api_call.url_valid /\ api_call.extract_urls = "missing"

\* C27: a URL route whose extractor returns a failed result answers with
\* status 400 and the result's error_message as detail; it answers with
\* status 500 only when the call of the extractor itself raised.
C27_FailedResultIs400 ==
    \A e \in Endpoints \ MarkdownEndpoints :
        Answered(e) =>
            /\ GotFailedResult(e) =>
                  /\ api_reply[e].reply.kind = "http_error"
                  /\ api_reply[e].reply.status_code = 400
                  /\ api_reply[e].reply.exception = "none"
            /\ api_reply[e].reply.status_code = 500 => ExtractorCallRaised

(***************************************************************************)
(* The responses of the services and of the markdown routes together       *)
(***************************************************************************)
\* a request at the markdown routes, and the same request and page handed to
\* the two services
InitResponses ==
    /\ api_call \in {c \in ApiCalls : c.sent_to = MarkdownEndpoints}
    /\ api_reply = [e \in Endpoints |-> NotReturned]
    /\ request = api_call.request
    /\ document = api_call.document
    /\ response = Pending
    /\ ClassifyIdle
    /\ MdIdle
    /\ AuxIdle
    /\ DriverIdle
    /\ SharedIdle

\* a service call returns
ServiceReturns ==
    /\ NextUrl
    /\ UNCHANGED api_vars

\* a markdown route answers
MarkdownRouteAnswers ==
    /\ \/ ExtractMarkdownFromWebpage
       \/ ExtractMarkdownFromWebpageGet
       \/ ExtractCleanMarkdownFromWebpage
    /\ UNCHANGED url_vars

NextResponses ==
    ServiceReturns \/ MarkdownRouteAnswers

SpecResponses ==
    InitResponses /\ [][NextResponses]_vars

\* total_links_found is the length of extracted_urls, and a failure carries
\* no URLs
CountIsLength(r) ==
    /\ r.total_links_found = Len(r.extracted_urls)
    /\ ~r.success => (r.extracted_urls = <<>> /\ r.total_links_found = 0)

MaxCalls ==
    2

Calls ==
    1 .. MaxCalls

\* an invocation that has not begun: its position, the driver _setup_driver
\* created for it (None: none), the driver _setup_driver is returning, whether
\* it has loaded a page, and its outcome
NoCall ==
    [pc |-> "idle", made |-> None, returning |-> None, loaded |-> FALSE,
     outcome |-> "none"]

\* webdriver.Chrome(...): a new browser, belonging to invocation i; quits
\* counts the calls of quit() on it, used_by the invocations that loaded or
\* read a page with it, early whether a quit() came while the invocation it
\* belongs to was still before its own finally block
NewDriver(i) ==
    [creator |-> i, quits |-> 0, quit_by |-> {}, used_by |-> {}, early |-> FALSE]

\* the positions at which an invocation still works with its driver
Working ==
    {"assign", "get", "wait", "links", "text", "return", "except"}

\* calls[i], at position pc
At(i, pc) ==
    calls[i].pc = pc

\* invocation i moves to position pc
Goto(i, pc) ==
    calls' = [calls EXCEPT ![i].pc = pc]

\* a method of self.driver is called by invocation i: the field is read; None
\* has no such method and a browser that was quit answers no command, so
\* both raise; else the browser is used
Use(i, next, on_raise) ==
    IF driver = None \/ drivers[driver[1]].quits > 0
    THEN /\ Goto(i, on_raise)
         /\ UNCHANGED drivers
    ELSE /\ drivers' = [drivers EXCEPT ![driver[1]].used_by = @ \cup {i}]
         /\ calls' = [calls EXCEPT ![i].pc = next, ![i].loaded = TRUE]

InitDriver ==
    /\ driver = None
    /\ drivers = <<>>
    /\ calls = [i \in Calls |-> NoCall]
    /\ UrlIdle
    /\ ClassifyIdle
    /\ MdIdle
    /\ AuxIdle
    /\ ApiIdle
    /\ SharedIdle

\* extract_urls_and_text is called
Call(i) ==
    /\ At(i, "idle")
    /\ Goto(i, "setup")
    /\ UNCHANGED <<driver, drivers>>

\* _setup_driver: installing the driver or starting the browser raises; or the
\* browser starts and set_page_load_timeout or implicitly_wait raises; or the
\* driver is returned
SetupDriver(i) ==
    /\ At(i, "setup")
    /\ \/ /\ Goto(i, "except")
          /\ UNCHANGED drivers
       \/ /\ drivers' = Append(drivers, NewDriver(i))
          /\ calls' = [calls EXCEPT ![i].pc = "except", ![i].made = Some(Len(drivers) + 1)]
       \/ /\ drivers' = Append(drivers, NewDriver(i))
          /\ calls' = [calls EXCEPT ![i].pc = "assign", ![i].made = Some(Len(drivers) + 1),
                                    ![i].returning = Some(Len(drivers) + 1)]
    /\ UNCHANGED driver
    /\ UNCHANGED <<api_vars, shared_vars, url_vars, classify_vars, md_vars, aux_vars>>

\* self.driver = <the driver returned>
AssignDriver(i) ==
    /\ At(i, "assign")
    /\ driver' = calls[i].returning
    /\ Goto(i, "get")
    /\ UNCHANGED drivers
    /\ UNCHANGED <<api_vars, shared_vars, url_vars, classify_vars, md_vars, aux_vars>>

\* self.driver.get(url_str): the page loads, or the call raises
GetPage(i) ==
    /\ At(i, "get")
    /\ \/ Use(i, "wait", "except")
       \/ /\ Goto(i, "except")
          /\ UNCHANGED drivers
    /\ UNCHANGED driver
    /\ UNCHANGED <<api_vars, shared_vars, url_vars, classify_vars, md_vars, aux_vars>>

\* _wait_for_page_load: a TimeoutException is caught, any other exception of
\* WebDriverWait(self.driver, ...) leaves the method
WaitForPageLoad(i) ==
    /\ At(i, "wait")
    /\ Use(i, "links", "except")
    /\ UNCHANGED driver
    /\ UNCHANGED <<api_vars, shared_vars, url_vars, classify_vars, md_vars, aux_vars>>

\* _extract_links_from_page: every exception is caught and gives []
ExtractLinksFromPage(i) ==
    /\ At(i, "links")
    /\ Use(i, "text", "text")
    /\ UNCHANGED driver
    /\ UNCHANGED <<api_vars, shared_vars, url_vars, classify_vars, md_vars, aux_vars>>

\* _extract_text_content: every exception is caught
ExtractTextContent(i) ==
    /\ At(i, "text")
    /\ Use(i, "return", "return")
    /\ UNCHANGED driver
    /\ UNCHANGED <<api_vars, shared_vars, url_vars, classify_vars, md_vars, aux_vars>>

\* return UrlExtractResponse(success=True, ...): the finally block runs next
ReturnSuccess(i) ==
    /\ At(i, "return")
    /\ calls' = [calls EXCEPT ![i].pc = "finally", ![i].outcome = "success"]
    /\ UNCHANGED <<driver, drivers>>
    /\ UNCHANGED <<api_vars, shared_vars, url_vars, classify_vars, md_vars, aux_vars>>

\* except Exception: return UrlExtractResponse(success=False, ...)
ReturnFailure(i) ==
    /\ At(i, "except")
    /\ calls' = [calls EXCEPT ![i].pc = "finally", ![i].outcome = "failure"]
    /\ UNCHANGED <<driver, drivers>>
    /\ UNCHANGED <<api_vars, shared_vars, url_vars, classify_vars, md_vars, aux_vars>>

\* finally: if self.driver:
FinallyCheck(i) ==
    /\ At(i, "finally")
    /\ Goto(i, IF driver # None THEN "quit" ELSE "done")
    /\ UNCHANGED <<driver, drivers>>
    /\ UNCHANGED <<api_vars, shared_vars, url_vars, classify_vars, md_vars, aux_vars>>

\* self.driver.quit(), the field read again; an exception is caught
QuitDriver(i) ==
    /\ At(i, "quit")
    /\ IF driver = None
       THEN UNCHANGED drivers
       ELSE drivers' = [drivers EXCEPT
                           ![driver[1]].quits = @ + 1,
                           ![driver[1]].quit_by = @ \cup {i},
                           ![driver[1]].early =
                               @ \/ calls[drivers[driver[1]].creator].pc \in Working]
    /\ Goto(i, "clear")
    /\ UNCHANGED driver
    /\ UNCHANGED <<api_vars, shared_vars, url_vars, classify_vars, md_vars, aux_vars>>

\* finally: self.driver = None, and the response is returned
ClearDriver(i) ==
    /\ At(i, "clear")
    /\ driver' = None
    /\ Goto(i, "done")
    /\ UNCHANGED drivers
    /\ UNCHANGED <<api_vars, shared_vars, url_vars, classify_vars, md_vars, aux_vars>>

\* a call that begins while no other invocation is running
CallInTurn(i) ==
    /\ \A j \in Calls \ {i} : calls[j].pc \in {"idle", "done"}
    /\ Call(i)
    /\ UNCHANGED <<api_vars, shared_vars, url_vars, classify_vars, md_vars, aux_vars>>

\* a call that begins at any time, as from a second thread
CallAnyTime(i) ==
    /\ Call(i)
    /\ UNCHANGED <<api_vars, shared_vars, url_vars, classify_vars, md_vars, aux_vars>>

\* invocations one after the other
NextDriverInTurn ==
    \E i \in Calls :
        \/ CallInTurn(i)
        \/ SetupDriver(i)
        \/ AssignDriver(i)
        \/ GetPage(i)
        \/ WaitForPageLoad(i)
        \/ ExtractLinksFromPage(i)
        \/ ExtractTextContent(i)
        \/ ReturnSuccess(i)
        \/ ReturnFailure(i)
        \/ FinallyCheck(i)
        \/ QuitDriver(i)
        \/ ClearDriver(i)

SpecDriverInTurn ==
    InitDriver /\ [][NextDriverInTurn]_vars

\* invocations that overlap
NextDriver ==
    \E i \in Calls :
        \/ CallAnyTime(i)
        \/ SetupDriver(i)
        \/ AssignDriver(i)
        \/ GetPage(i)
        \/ WaitForPageLoad(i)
        \/ ExtractLinksFromPage(i)
        \/ ExtractTextContent(i)
        \/ ReturnSuccess(i)
        \/ ReturnFailure(i)
        \/ FinallyCheck(i)
        \/ QuitDriver(i)
        \/ ClearDriver(i)

SpecDriver ==
    InitDriver /\ [][NextDriver]_vars

(***************************************************************************)
(* Properties of the driver life cycle                                     *)
(***************************************************************************)
\* invocation i returns in this step
Returns(i) ==
    calls[i].pc # "done" /\ calls'[i].pc = "done"

\* C25: whichever step of extract_urls_and_text fails or succeeds, when the
\* call returns a driver that was created for it has been quit and the
\* driver field of the instance is None; and no page is loaded or read by an
\* invocation before it has acquired its driver.
C25_DriverReleasedOnReturn ==
    [][\A i \in Calls :
          /\ Returns(i) =>
                /\ driver' = None
                /\ calls'[i].made # None => drivers'[calls'[i].made[1]].quits > 0
          /\ calls'[i].loaded => calls'[i].returning # None]_vars

\* the drivers that _setup_driver returned to the invocation they belong to
Acquired ==
    {d \in DOMAIN drivers : calls[drivers[d].creator].returning = Some(d)}

\* C26: when invocations on the one instance overlap, each uses and quits
\* only the driver it created: no driver is used or quit by another
\* invocation, none is quit while the invocation it belongs to still works,
\* the driver field holds the driver of an invocation for as long as that
\* invocation works with it, and every driver acquired is quit exactly once
\* by the time all invocations have returned.
C26_EachInvocationItsOwnDriver ==
    /\ \A d \in Acquired :
          /\ drivers[d].used_by \subseteq {drivers[d].creator}
          /\ drivers[d].quit_by \subseteq {drivers[d].creator}
          /\ ~drivers[d].early
          /\ drivers[d].quits <= 1
          /\ (\A i \in Calls : calls[i].pc = "done") => drivers[d].quits = 1
    /\ \A i \in Calls :
          calls[i].pc \in {"get", "wait", "links", "text"} => driver = calls[i].returning

(***************************************************************************)
(* UrlExtractorService.extract_urls_and_markdown, statement by statement:  *)
(* one parse tree, read by _extract_urls and then changed by _clean_html   *)
(***************************************************************************)
\* the largest number of elements under the body of a served page
MaxSoupNodes ==
    2

\* the tag names _clean_html passes to soup(...)
removed_tags ==
    {"script", "style", "nav", "footer", "header"}

\* "http://e.io/t "
T_short ==
    <<"h", "t", "t", "p", ":", "/", "/", "e", ".", "i", "o", "/", "t", " ">>

\* the elements under the body of a served page: a tag name, the href values
\* of the a elements inside it and the text inside it
SoupNodes ==
    [tag : {"div", "nav"},
     hrefs : {<<>>, <<H_abs_path>>, <<H_other_pdf>>},
     text : {<<>>, T_short}]

Soups ==
    UNION {[1..n -> SoupNodes] : n \in 0..MaxSoupNodes}

SoupRequests ==
    {r \in Requests : r.include_internal /\ r.max_links \in {None, Some(1)}}

\* what _extract_urls reads from a tree: soup.find_all('a', href=True) and
\* soup.get_text()
document_of(soup) ==
    [anchors |-> Flatten([k \in DOMAIN soup |-> soup[k].hrefs]),
     text |-> Flatten([k \in DOMAIN soup |-> soup[k].text])]

\* UrlExtractorService._clean_html: every element with one of the five tag
\* names is decomposed, with all it holds
clean_html(soup) ==
    SelectSeq(soup, LAMBDA node : node.tag \notin removed_tags)

\* a slip: the tree is sanitized before the URLs are read from it
extract_urls_after_clean(soup, request_) ==
    extract_urls(document_of(clean_html(soup)), request_)

\* self._extract_urls(soup, request) at the tree as it is when the call is made
extract_urls_from(soup, request_) ==
    extract_urls(document_of(soup), request_)

\* self.h2t.handle(str(soup)): the text and link targets left in the tree are
\* what the Markdown is made of
handle(soup) ==
    [text |-> Flatten([k \in DOMAIN soup |-> soup[k].text]),
     links |-> Flatten([k \in DOMAIN soup |-> soup[k].hrefs])]

NoMarkdown ==
    [text |-> <<>>, links |-> <<>>]

InitShared ==
    /\ request \in SoupRequests
    /\ \E served \in Soups :
          run = [pc |-> "get", html |-> served, extracted_urls |-> <<>>,
                 markdown_content |-> NoMarkdown]
    /\ shared_soup = <<>>
    /\ document = NoDocument
    /\ response = Pending
    /\ ClassifyIdle
    /\ MdIdle
    /\ AuxIdle
    /\ ApiIdle
    /\ DriverIdle

\* the except block: a failure response, whatever was computed so far
Except ==
    /\ response' = FailureResponse("requests")
    /\ run' = [run EXCEPT !.pc = "done"]

\* response = self.session.get(...); response.raise_for_status()
SessionGet ==
    /\ run.pc = "get"
    /\ \/ run' = [run EXCEPT !.pc = "parse"] /\ UNCHANGED response
       \/ Except
    /\ UNCHANGED <<api_vars, driver_vars, shared_soup, request, document,
                   classify_vars, md_vars, aux_vars>>

\* soup = BeautifulSoup(response.content, 'html.parser')
ParseHtml ==
    /\ run.pc = "parse"
    /\ shared_soup' = run.html
    /\ run' = [run EXCEPT !.pc = "urls"]
    /\ UNCHANGED <<api_vars, driver_vars, url_vars, classify_vars, md_vars, aux_vars>>

\* extracted_urls = self._extract_urls(soup, request)
ExtractUrls ==
    /\ run.pc = "urls"
    /\ \E r \in {extract_urls_from(shared_soup, request)} :
          \/ /\ r.err
             /\ Except
          \/ /\ ~r.err
             /\ \E urls_list \in r.lists :
                   run' = [run EXCEPT !.pc = "clean", !.extracted_urls = urls_list]
             /\ UNCHANGED response
    /\ UNCHANGED <<api_vars, driver_vars, shared_soup, request, document,
                   classify_vars, md_vars, aux_vars>>

\* self._clean_html(soup), the first statement of _convert_to_markdown
CleanHtml ==
    /\ run.pc = "clean"
    /\ shared_soup' = clean_html(shared_soup)
    /\ run' = [run EXCEPT !.pc = "handle"]
    /\ UNCHANGED <<api_vars, driver_vars, url_vars, classify_vars, md_vars, aux_vars>>

\* markdown = self.h2t.handle(str(soup)), and the two clean-up statements
Handle ==
    /\ run.pc = "handle"
    /\ run' = [run EXCEPT !.pc = "return", !.markdown_content = handle(shared_soup)]
    /\ UNCHANGED <<api_vars, driver_vars, shared_soup, url_vars, classify_vars,
                   md_vars, aux_vars>>

\* return UrlExtractResponse(extracted_urls=extracted_urls, ...)
ReturnResponse ==
    /\ run.pc = "return"
    /\ response' = SuccessResponse(run.extracted_urls, "requests")
    /\ run' = [run EXCEPT !.pc = "done"]
    /\ UNCHANGED <<api_vars, driver_vars, shared_soup, request, document,
                   classify_vars, md_vars, aux_vars>>

NextShared ==
    \/ SessionGet
    \/ ParseHtml
    \/ ExtractUrls
    \/ CleanHtml
    \/ Handle
    \/ ReturnResponse

SpecShared ==
    InitShared /\ [][NextShared]_vars

\* the URLs of the accepted a elements of the served page that are inside an
\* element _clean_html removes
RemovedAnchorUrls ==
    Let(urlparse(request.url, <<>>).netloc, LAMBDA base_domain :
        UNION {UNION {Range(a_tag_step(run.html[k].hrefs[j], request.url,
                                       base_domain, request).urls) :
                         j \in DOMAIN run.html[k].hrefs} :
                  k \in {n \in DOMAIN run.html : run.html[n].tag \in removed_tags}})

\* the call returned a success response
ReturnedUrls ==
    run.pc = "done" /\ response.success

\* the tree is as parsed until the URL list is held in extracted_urls
TreeAsParsedUntilUrlsRead ==
    run.pc \in {"urls", "clean"} => shared_soup = run.html

\* the returned list is one _extract_urls returns for the tree as parsed
SameAsNeverSanitized ==
    ReturnedUrls =>
        response.extracted_urls \in extract_urls_from(run.html, request).lists

\* max_links leaves the list of the served page whole
NoMaxLinksCut ==
    \A urls_list \in Orderings(urls_set_of(document_of(run.html), request).urls) :
        apply_max_links(urls_list, request.max_links) = urls_list

\* C29: in extract_urls_and_markdown the URL list is computed before
\* _clean_html changes the shared tree, so every accepted anchor inside a
\* script, style, nav, footer or header element is in extracted_urls, and the
\* list is one that extraction returns on a tree that is never sanitized
C29_UrlsReadBeforeTreeIsCleaned ==
    /\ TreeAsParsedUntilUrlsRead
    /\ SameAsNeverSanitized
    /\ ReturnedUrls => RemovedAnchorUrls \subseteq Range(response.extracted_urls)

\* C29, amended: as above, but an accepted anchor inside a removed element is
\* in extracted_urls only as far as the max_links cut keeps it: always when
\* the cut leaves the list whole
C29_UrlsReadBeforeTreeIsCleanedUpToCut ==
    /\ TreeAsParsedUntilUrlsRead
    /\ SameAsNeverSanitized
    /\ (ReturnedUrls /\ NoMaxLinksCut) =>
            RemovedAnchorUrls \subseteq Range(response.extracted_urls)

\* a success response carries the URL of an anchor inside a nav element, the
\* tree no longer holds that element, and extraction on the tree as it is now
\* would not return this list
C29_Witness ==
    /\ ReturnedUrls
    /\ RemovedAnchorUrls # {}
    /\ RemovedAnchorUrls \subseteq Range(response.extracted_urls)
    /\ shared_soup # run.html
    /\ response.extracted_urls \notin extract_urls_from(shared_soup, request).lists

====
